---- MODULE Spec2Model ----
(***************************************************************************)
(* Model of the bounded worker pool of yeungon/fastgo (src/main.go):       *)
(* WorkerPool (jobQueue, ctx/cancel, wg), its worker loops, Submit and     *)
(* Shutdown, and the request handler that submits a job and awaits its     *)
(* result on a capacity-1 channel.                                         *)
(*                                                                         *)
(* Go semantics the model relies on:                                       *)
(*  - a select with several ready cases picks any one of them;             *)
(*    the default case runs only when no other case is ready;              *)
(*  - a send on a closed channel (also as a select case) panics, a         *)
(*    receive on a closed channel yields buffered values first and then    *)
(*    the zero value with ok = false;                                      *)
(*  - close of an already closed channel panics;                           *)
(*  - an unrecovered panic ends the process.                               *)
(***************************************************************************)
EXTENDS Integers, Sequences, FiniteSets, TLC

\* ---- bounds -------------------------------------------------------------
NumWorkers == 1
QueueSize == 2
NumJobs == 4

\* bounds of the priority pool (src/ADVANCED_PATTERNS.md, pattern 1)
NumPWorkers == 1
NumPJobs == 3
MaxPriority == 2

\* bounds of the rate-limited pool (src/ADVANCED_PATTERNS.md, pattern 2)
NumRlWorkers == 1
RlQueueSize == 1
NumRlJobs == 3
\* bounds of the circuit breaker (src/ADVANCED_PATTERNS.md, pattern 3)
MaxFailures == 2
NumCbCalls == 5
\* bounds of the batching pool (src/ADVANCED_PATTERNS.md, pattern 5)
NumBaWorkers == 1
BatchSize == 2
NumBaJobs == 3
\* receives of the zero Job from the closed job queue that are followed
MaxBaZeroJobs == 1

\* adaptive pool: minWorkers, maxWorkers, queueSize, accepted jobs, worker
\* goroutines alive at a time, zero Jobs read from the closed queue
MinWorkers == 2
MaxWorkers == 3
AdQueueSize == 21
NumAdJobs == 21
MaxAdLoops == 3
MaxAdZeroJobs == 1

\* requests in the model of the request counters
NumMRequests == 3

NoJob == 0
Workers == 1..NumWorkers
RlWorkers == 1..NumRlWorkers
RlJobs == 1..NumRlJobs
CbCalls == 1..NumCbCalls
BaWorkers == 1..NumBaWorkers
BaJobs == 1..NumBaJobs
PWorkers == 1..NumPWorkers
PJobs == 1..NumPJobs
Priorities == 1..MaxPriority
Jobs == 1..NumJobs
\* the callers of Shutdown: Server.Start, and a second call of Shutdown
Callers == {1, 2}
\* the one call of Shutdown the program makes, in Server.Start
StartCallers == {1}

VARIABLES
    jobQueue,     \* WorkerPool.jobQueue: buffered channel of jobs (FIFO)
    closed,       \* jobQueue has been closed
    ctxDone,      \* WorkerPool.ctx is cancelled (ctx.Done() is closed)
    wg,           \* WorkerPool.wg counter
    wPc,          \* position of each worker goroutine
    wJob,         \* job held by each worker
    hPc,          \* position of each request handler (one job per handler)
    submitErr,    \* value returned by Submit to each handler
    resultCh,     \* number of results buffered in each job's ResultCh (cap 1)
    written,      \* history: number of results ever sent on each ResultCh
    sPc,          \* position of each caller of Shutdown
    timer,        \* the shutdown timeout of Server.Start
    panicked,     \* an unrecovered panic has ended the process
    activeConnections,  \* Metrics.activeConnections
    totalRequests,      \* Metrics.totalRequests
    completedRequests,  \* Metrics.completedRequests
    errorCount          \* Metrics.errorCount

\* the worker pool of src/main.go and its request handlers
poolVars == <<jobQueue, closed, ctxDone, wg, wPc, wJob, hPc, submitErr,
              resultCh, written, sPc, timer, panicked>>

metricVars == <<activeConnections, totalRequests, completedRequests, errorCount>>

\* ---- PriorityWorkerPool (src/ADVANCED_PATTERNS.md) ----------------------
VARIABLES
    pq,           \* PriorityWorkerPool.queue: the heap array of PriorityJobs
    pClosed,      \* PriorityWorkerPool.closed
    pSubmitted,   \* number of Submit calls made so far (jobs are numbered by arrival)
    pwPc,         \* position of each priority worker
    pwJob,        \* PriorityJob held by each priority worker
    pWg,          \* PriorityWorkerPool.wg counter
    pcPc,         \* position of the caller of Close
    popped        \* history: the jobs in the order in which workers popped them

prioVars == <<pq, pClosed, pSubmitted, pwPc, pwJob, pWg, pcPc, popped>>

\* a worker that holds no PriorityJob
NoPJob == [id |-> 0, prio |-> 0]

PInit ==
    /\ pq = << >>
    /\ pClosed = FALSE
    /\ pSubmitted = 0
    /\ pwPc = [w \in PWorkers |-> "wait"]
    /\ pwJob = [w \in PWorkers |-> NoPJob]
    /\ pWg = NumPWorkers
    /\ pcPc = "idle"
    /\ popped = << >>

\* ---- RateLimitedWorkerPool (src/ADVANCED_PATTERNS.md) -------------------
\* Submit and Close of AdaptiveWorkerPool and BatchingWorkerPool have the
\* same text as those of this pool.
VARIABLES
    rlQueue,      \* RateLimitedWorkerPool.jobQueue: buffered channel of jobs
    rlSendq,      \* callers of Submit parked on the send, in arrival order
    rlClosed,     \* jobQueue has been closed
    rlCtxDone,    \* RateLimitedWorkerPool.ctx is cancelled
    rlPc,         \* position of each caller of Submit
    rlErr,        \* value returned by Submit to each caller
    rlWasParked,  \* history: the caller's select found no case ready and parked
    rlwPc,        \* position of each worker
    rlwJob,       \* job held by each worker (NoJob: zero value of a closed queue)
    rlResult,     \* what was sent on each job's ResultCh
    rlWg,         \* RateLimitedWorkerPool.wg counter
    rlcPc,        \* position of the caller of Close
    rlPanicked    \* an unrecovered panic has ended the process

rlVars == <<rlQueue, rlSendq, rlClosed, rlCtxDone, rlPc, rlErr, rlWasParked,
            rlwPc, rlwJob, rlResult, rlWg, rlcPc, rlPanicked>>

\* ctx.Err() after cancel
ErrCanceled == "context canceled"

RlInit ==
    /\ rlQueue = << >>
    /\ rlSendq = << >>
    /\ rlClosed = FALSE
    /\ rlCtxDone = FALSE
    /\ rlPc = [j \in RlJobs |-> "idle"]
    /\ rlErr = [j \in RlJobs |-> "none"]
    /\ rlWasParked = [j \in RlJobs |-> FALSE]
    /\ rlwPc = [w \in RlWorkers |-> "select"]
    /\ rlwJob = [w \in RlWorkers |-> NoJob]
    /\ rlResult = [j \in RlJobs |-> "none"]
    /\ rlWg = NumRlWorkers
    /\ rlcPc = "idle"
    /\ rlPanicked = FALSE

\* ---- CircuitBreaker (src/ADVANCED_PATTERNS.md) --------------------------
VARIABLES
    cbState,      \* CircuitBreaker.state
    cbFailures,   \* CircuitBreaker.failures
    cbElapsed,    \* time.Since(cb.lastFailTime) > cb.resetTimeout
    cbPc,         \* position of each call of Execute
    cbRes,        \* value returned by each call of Execute
    cbTrial,      \* history: the calls that moved the breaker to HalfOpen
    cbStreak      \* history: failed calls completed since the last success

cbVars == <<cbState, cbFailures, cbElapsed, cbPc, cbRes, cbTrial, cbStreak>>

StateClosed == "Closed"
StateOpen == "Open"
StateHalfOpen == "HalfOpen"

\* errors.New("circuit breaker is open")
ErrCircuitOpen == "circuit breaker is open"
\* the error returned by a failing fn
ErrFn == "fn error"

\* NewCircuitBreaker: state Closed, failures 0, lastFailTime the zero time
CbInit ==
    /\ cbState = StateClosed
    /\ cbFailures = 0
    /\ cbElapsed = TRUE
    /\ cbPc = [c \in CbCalls |-> "idle"]
    /\ cbRes = [c \in CbCalls |-> "none"]
    /\ cbTrial = {}
    /\ cbStreak = 0

\* ---- BatchingWorkerPool (src/ADVANCED_PATTERNS.md) ----------------------
VARIABLES
    baQueue,       \* BatchingWorkerPool.jobQueue: buffered channel of jobs
    baClosed,      \* jobQueue has been closed
    baCtxDone,     \* BatchingWorkerPool.ctx is cancelled
    baPc,          \* position of each caller of Submit
    baErr,         \* value returned by Submit to each caller
    baBatch,       \* batcher: the local slice batch
    batPc,         \* batcher: position
    baTimer,       \* batcher: timer armed, or fired with the tick unread
    baFullAtFire,  \* history: at the tick, batchSize accepted jobs were waiting
    baZero,        \* number of zero Jobs received from the closed job queue
    baBatchQueue,  \* BatchingWorkerPool.batchQueue: buffered channel of batches
    baBatchClosed, \* batchQueue has been closed
    bawPc,         \* position of each worker
    bawBatch,      \* worker: batch.Jobs
    bawResults,    \* worker: results returned by processBatch
    bawIdx,        \* worker: index i of the loop over results
    baResultCh,    \* the Results sent on each job's ResultCh, in order
    baWg,          \* BatchingWorkerPool.wg counter
    bacPc,         \* position of the caller of Close
    baPanicked,    \* an unrecovered panic has ended the process
    baDispatched   \* history: the batches sent on batchQueue, in order

baVars == <<baQueue, baClosed, baCtxDone, baPc, baErr, baBatch, batPc, baTimer,
            baFullAtFire, baZero, baBatchQueue, baBatchClosed, bawPc, bawBatch,
            bawResults, bawIdx, baResultCh, baWg, bacPc, baPanicked,
            baDispatched>>

\* make(chan Job, workers*batchSize*2)
BaJobQueueCap == NumBaWorkers * BatchSize * 2
\* make(chan BatchJob, workers*2)
BaBatchQueueCap == NumBaWorkers * 2

\* NewBatchingWorkerPool: batcher and workers started, timer armed
BaInit ==
    /\ baQueue = << >>
    /\ baClosed = FALSE
    /\ baCtxDone = FALSE
    /\ baPc = [j \in BaJobs |-> "idle"]
    /\ baErr = [j \in BaJobs |-> "none"]
    /\ baBatch = << >>
    /\ batPc = "select"
    /\ baTimer = "armed"
    /\ baFullAtFire = FALSE
    /\ baZero = 0
    /\ baBatchQueue = << >>
    /\ baBatchClosed = FALSE
    /\ bawPc = [w \in BaWorkers |-> "range"]
    /\ bawBatch = [w \in BaWorkers |-> << >>]
    /\ bawResults = [w \in BaWorkers |-> << >>]
    /\ bawIdx = [w \in BaWorkers |-> 0]
    /\ baResultCh = [j \in BaJobs |-> << >>]
    /\ baWg = NumBaWorkers
    /\ bacPc = "idle"
    /\ baPanicked = FALSE
    /\ baDispatched = << >>

\* ---- AdaptiveWorkerPool (pattern 4) --------------------------------------

\* worker goroutines (a slot is free before its start and after its exit)
AdLoops == 1..MaxAdLoops

\* factors of the scaling thresholds of scaleMonitor
ScaleUpFactor == 10
ScaleDownFactor == 2

VARIABLES
    adCtor,          \* constructor: next i of the start loop, MinWorkers when done
    adQueue,         \* number of submitted jobs in jobQueue
    adClosed,        \* jobQueue closed
    adCtxDone,       \* pool context cancelled
    adAccepted,      \* calls of Submit that returned nil
    adErr,           \* what the latest call of Submit returned
    adCurrent,       \* currentWorkers
    adWorkers,       \* workers map: set of [id, loop]
    adLoopPc,        \* per goroutine: "none", "select", "exited"
    adLoopCancelled, \* per goroutine: its own cancel was called
    adProcessed,     \* metrics.processedJobs
    adZero,          \* zero Jobs received from the closed queue
    adWg,            \* WaitGroup counter
    adMonPc,         \* scaleMonitor: "select" or "exited"
    adcPc,           \* Close: "idle", "close", "wait", "returned"
    adPanicked       \* send on the closed jobQueue

adVars == <<adCtor, adQueue, adClosed, adCtxDone, adAccepted, adErr, adCurrent,
            adWorkers, adLoopPc, adLoopCancelled, adProcessed, adZero, adWg,
            adMonPc, adcPc, adPanicked>>

\* the struct literal of NewAdaptiveWorkerPool, before the start loop
AdInit ==
    /\ adCtor = 0
    /\ adQueue = 0
    /\ adClosed = FALSE
    /\ adCtxDone = FALSE
    /\ adAccepted = 0
    /\ adErr = "none"
    /\ adCurrent = MinWorkers
    /\ adWorkers = {}
    /\ adLoopPc = [l \in AdLoops |-> "none"]
    /\ adLoopCancelled = [l \in AdLoops |-> FALSE]
    /\ adProcessed = 0
    /\ adZero = 0
    /\ adWg = 0
    /\ adMonPc = "select"
    /\ adcPc = "idle"
    /\ adPanicked = FALSE

\* ---- request counters, one atomic operation per step ---------------------

\* requests handled concurrently
MRequests == 1..NumMRequests

VARIABLES
    mPc   \* per request: position of its handler between the counter updates

mVars == <<mPc>>

\* no request has arrived
MInit == mPc = [r \in MRequests |-> "idle"]

\* the pool variants of src/ADVANCED_PATTERNS.md and the fine-grained handlers
extVars == <<prioVars, rlVars, cbVars, baVars, adVars, mVars>>

vars == <<poolVars, metricVars, extVars>>

\* capacity of the result channel made by handleRequest
ResultChCap == 1

\* error values of Submit
ErrNone == "nil"
ErrQueueFull == "worker queue is full"
ErrShuttingDown == "worker pool is shutting down"

TypeOK ==
    /\ jobQueue \in Seq(Jobs)
    /\ closed \in BOOLEAN
    /\ ctxDone \in BOOLEAN
    /\ wg \in 0..NumWorkers
    /\ wPc \in [Workers -> {"select", "process", "send", "exited"}]
    /\ wJob \in [Workers -> Jobs \cup {NoJob}]
    /\ hPc \in [Jobs -> {"submit", "await", "rejected", "received", "timeout", "panic"}]
    /\ submitErr \in [Jobs -> {"none", ErrNone, ErrQueueFull, ErrShuttingDown}]
    /\ resultCh \in [Jobs -> 0..ResultChCap]
    /\ written \in [Jobs -> Nat]
    /\ sPc \in [Callers -> {"idle", "close", "wait", "returned", "panic"}]
    /\ timer \in {"unset", "running", "elapsed"}
    /\ panicked \in BOOLEAN
    /\ activeConnections \in 0..NumJobs
    /\ totalRequests \in 0..NumJobs
    /\ completedRequests \in 0..NumJobs
    /\ errorCount \in 0..NumJobs

\* NewWorkerPool + start: queue empty, context live, every worker spawned
\* and counted in the WaitGroup.
Init ==
    /\ jobQueue = << >>
    /\ closed = FALSE
    /\ ctxDone = FALSE
    /\ wg = NumWorkers
    /\ wPc = [w \in Workers |-> "select"]
    /\ wJob = [w \in Workers |-> NoJob]
    /\ hPc = [j \in Jobs |-> "submit"]
    /\ submitErr = [j \in Jobs |-> "none"]
    /\ resultCh = [j \in Jobs |-> 0]
    /\ written = [j \in Jobs |-> 0]
    /\ sPc = [c \in Callers |-> "idle"]
    /\ timer = "unset"
    /\ panicked = FALSE
    /\ activeConnections = 0
    /\ totalRequests = 0
    /\ completedRequests = 0
    /\ errorCount = 0
    /\ PInit
    /\ RlInit
    /\ CbInit
    /\ BaInit
    /\ AdInit
    /\ MInit

\* ---- Metrics ------------------------------------------------------------
\* A handler's counter updates are applied with the step of the handler they
\* belong to: IncrementActive with the Submit call that follows it, the
\* deferred DecrementActive with the step on which the handler returns.
\* entry of handleRequest: IncrementActive; Submit accepts, handler goes on
MetricsEnter ==
    /\ activeConnections' = activeConnections + 1
    /\ totalRequests' = totalRequests + 1
    /\ UNCHANGED <<completedRequests, errorCount>>

\* IncrementActive, Submit fails, IncrementErrors, deferred DecrementActive
MetricsEnterRejected ==
    /\ activeConnections' = (activeConnections + 1) - 1
    /\ totalRequests' = totalRequests + 1
    /\ completedRequests' = completedRequests + 1
    /\ errorCount' = errorCount + 1

\* IncrementActive, Submit panics, deferred DecrementActive runs
MetricsEnterPanic ==
    /\ activeConnections' = (activeConnections + 1) - 1
    /\ totalRequests' = totalRequests + 1
    /\ completedRequests' = completedRequests + 1
    /\ UNCHANGED errorCount

\* result received with Error = nil, deferred DecrementActive
MetricsLeaveOk ==
    /\ activeConnections' = activeConnections - 1
    /\ completedRequests' = completedRequests + 1
    /\ UNCHANGED <<totalRequests, errorCount>>

\* mutant: the timeout branch does not call IncrementErrors
MetricsLeaveError_NoCount ==
    /\ activeConnections' = activeConnections - 1
    /\ completedRequests' = completedRequests + 1
    /\ UNCHANGED <<totalRequests, errorCount>>

\* timeout: IncrementErrors, deferred DecrementActive
MetricsLeaveError ==
    /\ activeConnections' = activeConnections - 1
    /\ completedRequests' = completedRequests + 1
    /\ errorCount' = errorCount + 1
    /\ UNCHANGED totalRequests

\* ---- WorkerPool.Submit --------------------------------------------------
\* Submit calls are serialised by the channel lock; jobs are numbered in the
\* order in which their handlers call Submit.
IsNextSubmit(j) ==
    /\ hPc[j] = "submit"
    /\ \A i \in Jobs : i < j => hPc[i] # "submit"

\* mutant: the send case is taken although the buffer is already full
SubmitEnqueue_OffByOne(j) ==
    /\ ~panicked
    /\ IsNextSubmit(j)
    /\ ~closed
    /\ Len(jobQueue) <= QueueSize
    /\ jobQueue' = Append(jobQueue, j)
    /\ hPc' = [hPc EXCEPT ![j] = "await"]
    /\ submitErr' = [submitErr EXCEPT ![j] = ErrNone]
    /\ UNCHANGED <<closed, ctxDone, wg, wPc, wJob, resultCh, written, sPc, timer, panicked>>
    /\ MetricsEnter
    /\ UNCHANGED extVars

\* mutant: the job is accepted without any capacity check
SubmitEnqueue_NoCapacity(j) ==
    /\ ~panicked
    /\ IsNextSubmit(j)
    /\ ~closed
    /\ jobQueue' = Append(jobQueue, j)
    /\ hPc' = [hPc EXCEPT ![j] = "await"]
    /\ submitErr' = [submitErr EXCEPT ![j] = ErrNone]
    /\ UNCHANGED <<closed, ctxDone, wg, wPc, wJob, resultCh, written, sPc, timer, panicked>>
    /\ MetricsEnter
    /\ UNCHANGED extVars

\* select case wp.jobQueue <- job, channel open with buffer room
SubmitEnqueue(j) ==
    /\ ~panicked
    /\ IsNextSubmit(j)
    /\ ~closed
    /\ Len(jobQueue) < QueueSize
    /\ jobQueue' = Append(jobQueue, j)
    /\ hPc' = [hPc EXCEPT ![j] = "await"]
    /\ submitErr' = [submitErr EXCEPT ![j] = ErrNone]
    /\ UNCHANGED <<closed, ctxDone, wg, wPc, wJob, resultCh, written, sPc, timer, panicked>>
    /\ MetricsEnter
    /\ UNCHANGED extVars

\* select case wp.jobQueue <- job, channel closed: send on closed channel
SubmitClosedPanic(j) ==
    /\ ~panicked
    /\ IsNextSubmit(j)
    /\ closed
    /\ hPc' = [hPc EXCEPT ![j] = "panic"]
    /\ panicked' = TRUE
    /\ UNCHANGED <<jobQueue, closed, ctxDone, wg, wPc, wJob, submitErr, resultCh, written, sPc, timer>>
    /\ MetricsEnterPanic
    /\ UNCHANGED extVars

\* select case <-wp.ctx.Done()
SubmitShuttingDown(j) ==
    /\ ~panicked
    /\ IsNextSubmit(j)
    /\ ctxDone
    /\ hPc' = [hPc EXCEPT ![j] = "rejected"]
    /\ submitErr' = [submitErr EXCEPT ![j] = ErrShuttingDown]
    /\ UNCHANGED <<jobQueue, closed, ctxDone, wg, wPc, wJob, resultCh, written, sPc, timer, panicked>>
    /\ MetricsEnterRejected
    /\ UNCHANGED extVars

\* mutant: the default case drops the job and reports success
SubmitFull_Nil(j) ==
    /\ ~panicked
    /\ IsNextSubmit(j)
    /\ ~closed
    /\ Len(jobQueue) >= QueueSize
    /\ ~ctxDone
    /\ hPc' = [hPc EXCEPT ![j] = "await"]
    /\ submitErr' = [submitErr EXCEPT ![j] = ErrNone]
    /\ UNCHANGED <<jobQueue, closed, ctxDone, wg, wPc, wJob, resultCh, written, sPc, timer, panicked>>
    /\ MetricsEnter
    /\ UNCHANGED extVars

\* select default: taken only when neither other case is ready
SubmitFull(j) ==
    /\ ~panicked
    /\ IsNextSubmit(j)
    /\ ~closed
    /\ Len(jobQueue) >= QueueSize
    /\ ~ctxDone
    /\ hPc' = [hPc EXCEPT ![j] = "rejected"]
    /\ submitErr' = [submitErr EXCEPT ![j] = ErrQueueFull]
    /\ UNCHANGED <<jobQueue, closed, ctxDone, wg, wPc, wJob, resultCh, written, sPc, timer, panicked>>
    /\ MetricsEnterRejected
    /\ UNCHANGED extVars

Submit(j) ==
    \/ SubmitEnqueue(j)
    \/ SubmitClosedPanic(j)
    \/ SubmitShuttingDown(j)
    \/ SubmitFull(j)

\* ---- Server.handleRequest: wait for the result with timeout -------------
\* case result := <-resultCh
HandlerReceive(j) ==
    /\ ~panicked
    /\ hPc[j] = "await"
    /\ resultCh[j] > 0
    /\ resultCh' = [resultCh EXCEPT ![j] = @ - 1]
    /\ hPc' = [hPc EXCEPT ![j] = "received"]
    /\ UNCHANGED <<jobQueue, closed, ctxDone, wg, wPc, wJob, submitErr, written, sPc, timer, panicked>>
    /\ MetricsLeaveOk
    /\ UNCHANGED extVars

\* mutant: the handler gives up only once the job has finished
HandlerTimeout_WaitsForJob(j) ==
    /\ ~panicked
    /\ hPc[j] = "await"
    /\ written[j] > 0
    /\ hPc' = [hPc EXCEPT ![j] = "timeout"]
    /\ UNCHANGED <<jobQueue, closed, ctxDone, wg, wPc, wJob, submitErr, resultCh, written, sPc, timer, panicked>>
    /\ MetricsLeaveError
    /\ UNCHANGED extVars

\* case <-time.After(30 * time.Second)
HandlerTimeout(j) ==
    /\ ~panicked
    /\ hPc[j] = "await"
    /\ hPc' = [hPc EXCEPT ![j] = "timeout"]
    /\ UNCHANGED <<jobQueue, closed, ctxDone, wg, wPc, wJob, submitErr, resultCh, written, sPc, timer, panicked>>
    /\ MetricsLeaveError
    /\ UNCHANGED extVars

\* ---- WorkerPool.worker --------------------------------------------------
\* return from worker: deferred wp.wg.Done()
WorkerReturn(w) ==
    /\ wPc' = [wPc EXCEPT ![w] = "exited"]
    /\ wJob' = [wJob EXCEPT ![w] = NoJob]
    /\ wg' = wg - 1

\* outer select, case <-wp.ctx.Done()
WorkerCtxDone(w) ==
    /\ ~panicked
    /\ wPc[w] = "select"
    /\ ctxDone
    /\ WorkerReturn(w)
    /\ UNCHANGED <<jobQueue, closed, ctxDone, hPc, submitErr, resultCh, written, sPc, timer, panicked>>
    /\ UNCHANGED metricVars
    /\ UNCHANGED extVars

\* mutant: the job is read but stays in the queue
WorkerDequeue_Peek(w) ==
    /\ ~panicked
    /\ wPc[w] = "select"
    /\ Len(jobQueue) > 0
    /\ wJob' = [wJob EXCEPT ![w] = Head(jobQueue)]
    /\ wPc' = [wPc EXCEPT ![w] = "process"]
    /\ UNCHANGED <<jobQueue, closed, ctxDone, wg, hPc, submitErr, resultCh, written, sPc, timer, panicked>>
    /\ UNCHANGED metricVars
    /\ UNCHANGED extVars

\* mutant: the newest job is taken instead of the oldest
WorkerDequeue_LIFO(w) ==
    /\ ~panicked
    /\ wPc[w] = "select"
    /\ Len(jobQueue) > 0
    /\ wJob' = [wJob EXCEPT ![w] = jobQueue[Len(jobQueue)]]
    /\ jobQueue' = SubSeq(jobQueue, 1, Len(jobQueue) - 1)
    /\ wPc' = [wPc EXCEPT ![w] = "process"]
    /\ UNCHANGED <<closed, ctxDone, wg, hPc, submitErr, resultCh, written, sPc, timer, panicked>>
    /\ UNCHANGED metricVars
    /\ UNCHANGED extVars

\* outer select, case job, ok := <-wp.jobQueue with ok = true
WorkerDequeue(w) ==
    /\ ~panicked
    /\ wPc[w] = "select"
    /\ Len(jobQueue) > 0
    /\ wJob' = [wJob EXCEPT ![w] = Head(jobQueue)]
    /\ jobQueue' = Tail(jobQueue)
    /\ wPc' = [wPc EXCEPT ![w] = "process"]
    /\ UNCHANGED <<closed, ctxDone, wg, hPc, submitErr, resultCh, written, sPc, timer, panicked>>
    /\ UNCHANGED metricVars
    /\ UNCHANGED extVars

\* mutant: the worker returns when it finds the queue empty, closed or not
WorkerQueueClosed_OnEmpty(w) ==
    /\ ~panicked
    /\ wPc[w] = "select"
    /\ Len(jobQueue) = 0
    /\ WorkerReturn(w)
    /\ UNCHANGED <<jobQueue, closed, ctxDone, hPc, submitErr, resultCh, written, sPc, timer, panicked>>
    /\ UNCHANGED metricVars
    /\ UNCHANGED extVars

\* outer select, case job, ok := <-wp.jobQueue with ok = false
WorkerQueueClosed(w) ==
    /\ ~panicked
    /\ wPc[w] = "select"
    /\ Len(jobQueue) = 0
    /\ closed
    /\ WorkerReturn(w)
    /\ UNCHANGED <<jobQueue, closed, ctxDone, hPc, submitErr, resultCh, written, sPc, timer, panicked>>
    /\ UNCHANGED metricVars
    /\ UNCHANGED extVars

\* result := wp.processJob(job) returns (after its 100ms sleep)
WorkerProcess(w) ==
    /\ ~panicked
    /\ wPc[w] = "process"
    /\ wPc' = [wPc EXCEPT ![w] = "send"]
    /\ UNCHANGED <<jobQueue, closed, ctxDone, wg, wJob, hPc, submitErr, resultCh, written, sPc, timer, panicked>>
    /\ UNCHANGED metricVars
    /\ UNCHANGED extVars

\* mutant: the worker goes back to the loop without sending the result
WorkerSend_Drop(w) ==
    /\ ~panicked
    /\ wPc[w] = "send"
    /\ resultCh[wJob[w]] < ResultChCap
    /\ wPc' = [wPc EXCEPT ![w] = "select"]
    /\ wJob' = [wJob EXCEPT ![w] = NoJob]
    /\ UNCHANGED <<jobQueue, closed, ctxDone, wg, hPc, submitErr, resultCh, written, sPc, timer, panicked>>
    /\ UNCHANGED metricVars
    /\ UNCHANGED extVars

\* mutant: the result channel is unbuffered, the send needs the handler to
\* be receiving
WorkerSend_Unbuffered(w) ==
    /\ ~panicked
    /\ wPc[w] = "send"
    /\ resultCh[wJob[w]] < ResultChCap
    /\ hPc[wJob[w]] = "await"
    /\ resultCh' = [resultCh EXCEPT ![wJob[w]] = @ + 1]
    /\ written' = [written EXCEPT ![wJob[w]] = @ + 1]
    /\ wPc' = [wPc EXCEPT ![w] = "select"]
    /\ wJob' = [wJob EXCEPT ![w] = NoJob]
    /\ UNCHANGED <<jobQueue, closed, ctxDone, wg, hPc, submitErr, sPc, timer, panicked>>
    /\ UNCHANGED metricVars
    /\ UNCHANGED extVars

\* inner select, case job.ResultCh <- result
WorkerSend(w) ==
    /\ ~panicked
    /\ wPc[w] = "send"
    /\ resultCh[wJob[w]] < ResultChCap
    /\ resultCh' = [resultCh EXCEPT ![wJob[w]] = @ + 1]
    /\ written' = [written EXCEPT ![wJob[w]] = @ + 1]
    /\ wPc' = [wPc EXCEPT ![w] = "select"]
    /\ wJob' = [wJob EXCEPT ![w] = NoJob]
    /\ UNCHANGED <<jobQueue, closed, ctxDone, wg, hPc, submitErr, sPc, timer, panicked>>
    /\ UNCHANGED metricVars
    /\ UNCHANGED extVars

\* mutant: the inner select has no Done case, the worker leaves only after
\* its result was written
WorkerSendCtxDone_WaitsForSend(w) ==
    /\ ~panicked
    /\ wPc[w] = "send"
    /\ ctxDone
    /\ written[wJob[w]] = 1
    /\ WorkerReturn(w)
    /\ UNCHANGED <<jobQueue, closed, ctxDone, hPc, submitErr, resultCh, written, sPc, timer, panicked>>
    /\ UNCHANGED metricVars
    /\ UNCHANGED extVars

\* inner select, case <-wp.ctx.Done(): return without sending
WorkerSendCtxDone(w) ==
    /\ ~panicked
    /\ wPc[w] = "send"
    /\ ctxDone
    /\ WorkerReturn(w)
    /\ UNCHANGED <<jobQueue, closed, ctxDone, hPc, submitErr, resultCh, written, sPc, timer, panicked>>
    /\ UNCHANGED metricVars
    /\ UNCHANGED extVars

\* ---- WorkerPool.Shutdown ------------------------------------------------
\* Calls of Shutdown are numbered in the order in which they run wp.cancel().
IsNextShutdown(c) ==
    /\ sPc[c] = "idle"
    /\ \A i \in Callers : i < c => sPc[i] # "idle"

\* wp.cancel(); Server.Start calls Shutdown once it has seen ctx.Done() and
\* has created shutdownCtx
ShutdownCancel(c) ==
    /\ ~panicked
    /\ IsNextShutdown(c)
    /\ timer # "unset"
    /\ ctxDone' = TRUE
    /\ sPc' = [sPc EXCEPT ![c] = "close"]
    /\ UNCHANGED <<jobQueue, closed, wg, wPc, wJob, hPc, submitErr, resultCh, written, timer, panicked>>
    /\ UNCHANGED metricVars
    /\ UNCHANGED extVars

\* close(wp.jobQueue) on an open channel
ShutdownClose(c) ==
    /\ ~panicked
    /\ sPc[c] = "close"
    /\ ~closed
    /\ closed' = TRUE
    /\ sPc' = [sPc EXCEPT ![c] = "wait"]
    /\ UNCHANGED <<jobQueue, ctxDone, wg, wPc, wJob, hPc, submitErr, resultCh, written, timer, panicked>>
    /\ UNCHANGED metricVars
    /\ UNCHANGED extVars

\* close(wp.jobQueue) on a closed channel: panic
ShutdownClosePanic(c) ==
    /\ ~panicked
    /\ sPc[c] = "close"
    /\ closed
    /\ sPc' = [sPc EXCEPT ![c] = "panic"]
    /\ panicked' = TRUE
    /\ UNCHANGED <<jobQueue, closed, ctxDone, wg, wPc, wJob, hPc, submitErr, resultCh, written, timer>>
    /\ UNCHANGED metricVars
    /\ UNCHANGED extVars

\* mutant: Shutdown returns without joining the workers
ShutdownWait_NoJoin(c) ==
    /\ ~panicked
    /\ sPc[c] = "wait"
    /\ sPc' = [sPc EXCEPT ![c] = "returned"]
    /\ UNCHANGED <<jobQueue, closed, ctxDone, wg, wPc, wJob, hPc, submitErr, resultCh, written, timer, panicked>>
    /\ UNCHANGED metricVars
    /\ UNCHANGED extVars

\* wp.wg.Wait() returns, Shutdown returns
ShutdownWait(c) ==
    /\ ~panicked
    /\ sPc[c] = "wait"
    /\ wg = 0
    /\ sPc' = [sPc EXCEPT ![c] = "returned"]
    /\ UNCHANGED <<jobQueue, closed, ctxDone, wg, wPc, wJob, hPc, submitErr, resultCh, written, timer, panicked>>
    /\ UNCHANGED metricVars
    /\ UNCHANGED extVars

\* ---- main / Server.Start: shutdown signal and shutdown timeout ----------
\* the signal goroutine calls cancel(); the pool context is a child of that
\* context, and Start creates shutdownCtx with ShutdownTimeout
SignalCancel ==
    /\ ~panicked
    /\ timer = "unset"
    /\ ctxDone' = TRUE
    /\ timer' = "running"
    /\ UNCHANGED <<jobQueue, closed, wg, wPc, wJob, hPc, submitErr, resultCh, written, sPc, panicked>>
    /\ UNCHANGED metricVars
    /\ UNCHANGED extVars

\* shutdownCtx reaches its deadline
ShutdownTimeoutElapses ==
    /\ ~panicked
    /\ timer = "running"
    /\ timer' = "elapsed"
    /\ UNCHANGED <<jobQueue, closed, ctxDone, wg, wPc, wJob, hPc, submitErr, resultCh, written, sPc, panicked>>
    /\ UNCHANGED metricVars
    /\ UNCHANGED extVars

\* ---- specifications -----------------------------------------------------
Next ==
    \/ \E j \in Jobs : SubmitEnqueue(j)
    \/ \E j \in Jobs : SubmitClosedPanic(j)
    \/ \E j \in Jobs : SubmitShuttingDown(j)
    \/ \E j \in Jobs : SubmitFull(j)
    \/ \E j \in Jobs : HandlerReceive(j)
    \/ \E j \in Jobs : HandlerTimeout(j)
    \/ \E w \in Workers : WorkerCtxDone(w)
    \/ \E w \in Workers : WorkerDequeue(w)
    \/ \E w \in Workers : WorkerQueueClosed(w)
    \/ \E w \in Workers : WorkerProcess(w)
    \/ \E w \in Workers : WorkerSend(w)
    \/ \E w \in Workers : WorkerSendCtxDone(w)
    \/ \E c \in StartCallers : ShutdownCancel(c)
    \/ \E c \in StartCallers : ShutdownClose(c)
    \/ \E c \in StartCallers : ShutdownWait(c)
    \/ SignalCancel
    \/ ShutdownTimeoutElapses

Spec == Init /\ [][Next]_vars

\* The program with a second call of Shutdown on the same pool, sequential or
\* concurrent with the call made by Server.Start.
NextSecondShutdown ==
    \/ Next
    \/ \E c \in Callers \ StartCallers : ShutdownCancel(c)
    \/ \E c \in Callers \ StartCallers : ShutdownClose(c)
    \/ \E c \in Callers : ShutdownClosePanic(c)
    \/ \E c \in Callers \ StartCallers : ShutdownWait(c)

SpecSecondShutdown == Init /\ [][NextSecondShutdown]_vars

\* The pool while Running: nobody calls Shutdown and no signal arrives.
\* Worker steps are fair: goroutines are scheduled and processJob returns.
NextRunning ==
    \/ \E j \in Jobs : SubmitEnqueue(j)
    \/ \E j \in Jobs : SubmitFull(j)
    \/ \E j \in Jobs : HandlerReceive(j)
    \/ \E j \in Jobs : HandlerTimeout(j)
    \/ \E w \in Workers : WorkerDequeue(w)
    \/ \E w \in Workers : WorkerProcess(w)
    \/ \E w \in Workers : WorkerSend(w)

WorkerStep(w) ==
    \/ WorkerDequeue(w)
    \/ WorkerProcess(w)
    \/ WorkerSend(w)

SpecRunning ==
    /\ Init
    /\ [][NextRunning]_vars
    /\ \A w \in Workers : WF_vars(WorkerStep(w))

\* Fair scheduling of the worker goroutines and of the goroutine that runs
\* Shutdown: a worker that can take a step of its loop eventually takes one
\* (processJob returns), and Shutdown proceeds from one statement to the next.
WorkerAnyStep(w) ==
    \/ WorkerCtxDone(w)
    \/ WorkerDequeue(w)
    \/ WorkerQueueClosed(w)
    \/ WorkerProcess(w)
    \/ WorkerSend(w)
    \/ WorkerSendCtxDone(w)

ShutdownStep(c) ==
    \/ ShutdownCancel(c)
    \/ ShutdownClose(c)
    \/ ShutdownWait(c)

\* Handlers that submit and then never take their result (nobody receives
\* from a result channel), together with the workers and Shutdown.
NextAbandoned ==
    \/ \E j \in Jobs : SubmitEnqueue(j)
    \/ \E j \in Jobs : SubmitClosedPanic(j)
    \/ \E j \in Jobs : SubmitShuttingDown(j)
    \/ \E j \in Jobs : SubmitFull(j)
    \/ \E w \in Workers : WorkerCtxDone(w)
    \/ \E w \in Workers : WorkerDequeue(w)
    \/ \E w \in Workers : WorkerQueueClosed(w)
    \/ \E w \in Workers : WorkerProcess(w)
    \/ \E w \in Workers : WorkerSend(w)
    \/ \E w \in Workers : WorkerSendCtxDone(w)
    \/ \E c \in StartCallers : ShutdownCancel(c)
    \/ \E c \in StartCallers : ShutdownClose(c)
    \/ \E c \in StartCallers : ShutdownWait(c)
    \/ SignalCancel

SpecFairShutdown ==
    /\ Init
    /\ [][NextAbandoned]_vars
    /\ \A w \in Workers : WF_vars(WorkerAnyStep(w))
    /\ \A c \in StartCallers : WF_vars(ShutdownStep(c))

\* ---- properties ---------------------------------------------------------
\* handler j performs its Submit call in this step
SubmitReturns(j) == hPc[j] = "submit" /\ hPc'[j] # "submit"

\* jobs accepted by Submit whose result has not been produced yet
Pending == {j \in Jobs : submitErr[j] = ErrNone /\ written[j] = 0}

AllWorkersBlocked == \A w \in Workers : wPc[w] = "process"

\* C1: while the pool is Running (no Shutdown, no cancellation) every job
\* accepted by Submit eventually has exactly one Result written to its result
\* channel: it is never lost and never delivered twice.
C1_EveryAcceptedJobOneResult ==
    \A j \in Jobs :
        /\ [](submitErr[j] = ErrNone => <>(written[j] = 1))
        /\ [](written[j] <= 1)

C1_Witness ==
    \E j \in Jobs : submitErr[j] = ErrNone /\ written[j] = 1 /\ hPc[j] = "received"

\* C2: the job queue never holds more than queueSize jobs.
C2_QueueWithinCapacity == Len(jobQueue) <= QueueSize

C2_Witness ==
    /\ Len(jobQueue) = QueueSize
    /\ \E j \in Jobs : submitErr[j] = ErrQueueFull

\* C3: a Submit on a Running pool never blocks and returns in one step: with the queue at
\* capacity it returns the queue-full error and leaves the queue unchanged,
\* with room it appends the job and returns nil before the job is processed.
C3_SubmitNonBlocking ==
    /\ [](\A j \in Jobs : (IsNextSubmit(j) /\ ~ctxDone) => ENABLED Submit(j))
    /\ [][\A j \in Jobs :
         (SubmitReturns(j) /\ ~ctxDone) =>
            IF Len(jobQueue) >= QueueSize
            THEN /\ submitErr'[j] = ErrQueueFull
                 /\ hPc'[j] = "rejected"
                 /\ jobQueue' = jobQueue
            ELSE /\ submitErr'[j] = ErrNone
                 /\ hPc'[j] = "await"
                 /\ jobQueue' = Append(jobQueue, j)
                 /\ written'[j] = 0]_vars

C3_Witness ==
    /\ ~ctxDone
    /\ \E j \in Jobs : submitErr[j] = ErrQueueFull
    /\ \E j \in Jobs : submitErr[j] = ErrNone /\ written[j] = 0

\* C4: on a Running pool whose workers are all blocked in the work function
\* at most capacity + workers accepted jobs are pending, and a Submit made
\* with the queue full returns the queue-full error (it does not hang).
C4_SaturationRejects ==
    /\ []((AllWorkersBlocked /\ ~ctxDone) =>
            /\ Cardinality(Pending) <= QueueSize + NumWorkers
            /\ \A j \in Jobs : IsNextSubmit(j) => ENABLED Submit(j))
    /\ [][\A j \in Jobs :
            (SubmitReturns(j) /\ AllWorkersBlocked /\ ~ctxDone
                /\ Cardinality(Pending) = QueueSize + NumWorkers) =>
               (submitErr'[j] = ErrQueueFull /\ Pending' = Pending)]_vars

C4_Witness ==
    /\ AllWorkersBlocked
    /\ ~ctxDone
    /\ Cardinality(Pending) = QueueSize + NumWorkers
    /\ \E j \in Jobs : submitErr[j] = ErrQueueFull

\* C5: once the cancellation signal has fired every Submit is rejected with
\* the shutting-down error and the job is not placed in the queue.
C5_SubmitAfterCancelRejected ==
    [][\A j \in Jobs :
         (SubmitReturns(j) /\ ctxDone) =>
            (submitErr'[j] = ErrShuttingDown /\ jobQueue' = jobQueue)]_vars

\* C6: a Submit on a pool whose queue has been closed never panics, it
\* returns the shutting-down error.
C6_SubmitOnClosedQueueRejected ==
    [][\A j \in Jobs :
         (SubmitReturns(j) /\ closed) =>
            (~panicked' /\ hPc'[j] = "rejected" /\ submitErr'[j] = ErrShuttingDown)]_vars

\* C7: once a call of Shutdown has returned every worker loop has exited:
\* no worker can dequeue or process a job any more.
C7_ShutdownJoinsWorkers ==
    \A c \in Callers :
        sPc[c] = "returned" =>
            /\ wg = 0
            /\ \A w \in Workers : wPc[w] = "exited" /\ wJob[w] = NoJob

C7_Witness ==
    /\ \E c \in Callers : sPc[c] = "returned"
    /\ \E j \in Jobs : written[j] = 1

\* C8: Shutdown may be called twice (sequentially or concurrently) without
\* a panic: the second call is a no-op.
C8_ShutdownIdempotent ==
    \A c \in Callers : sPc[c] # "panic"

\* C9: once the shutdown timeout has elapsed a Shutdown that is waiting for
\* the workers can return, also while some worker is still inside its work
\* function and has not exited.
C9_ShutdownBoundedByTimeout ==
    \A c \in Callers :
        (/\ timer = "elapsed"
         /\ sPc[c] = "wait"
         /\ \E w \in Workers : wPc[w] = "process"
         /\ ~panicked) => ENABLED ShutdownWait(c)

\* C10: once the cancellation signal has fired no worker dequeues a new job.
C10_NoDequeueAfterCancel ==
    [][\A w \in Workers :
         ctxDone => ~(wPc[w] = "select" /\ wPc'[w] = "process")]_vars

\* number of places (queue slots and workers) that hold job j
Occurrences(j) ==
    Cardinality({k \in 1..Len(jobQueue) : jobQueue[k] = j})
        + Cardinality({w \in Workers : wJob[w] = j})

InQueue(j) == \E k \in 1..Len(jobQueue) : jobQueue[k] = j

C12_WorkerNeverBlockedOnResult ==
    /\ [](\A w \in Workers :
            (wPc[w] = "send" /\ ~panicked) =>
                (resultCh[wJob[w]] < ResultChCap /\ ENABLED WorkerSend(w)))
    /\ [][\A w \in Workers :
            (wPc[w] = "send" /\ written'[wJob[w]] # written[wJob[w]]) =>
                wPc'[w] = "select"]_vars

C12_Witness ==
    \E j \in Jobs :
        /\ hPc[j] = "timeout"
        /\ resultCh[j] = 1
        /\ \E w \in Workers : wPc[w] = "process" /\ wJob[w] # j

\* C13: while a handler awaits its result the timeout can fire at any moment,
\* before the worker has written the Result; the handler then returns the
\* Timeout outcome in that step and the job is not cancelled: queue, workers
\* and result channel are left as they are.
C13_TimeoutDoesNotWaitForJob ==
    /\ [](\A j \in Jobs : (hPc[j] = "await" /\ ~panicked) => ENABLED HandlerTimeout(j))
    /\ [][\A j \in Jobs :
            (hPc[j] = "await" /\ hPc'[j] = "timeout") =>
                /\ jobQueue' = jobQueue
                /\ wPc' = wPc
                /\ wJob' = wJob
                /\ resultCh' = resultCh
                /\ written' = written
                /\ ctxDone' = ctxDone]_vars

C13_Witness ==
    \E j \in Jobs :
        /\ hPc[j] = "timeout"
        /\ written[j] = 0
        /\ \E w \in Workers : wJob[w] = j /\ wPc[w] = "process"

\* C14: the queue is FIFO: when a worker dequeues a job, every job that
\* Submit accepted before it has already left the queue.
C14_FifoDequeue ==
    [][\A w \in Workers :
         (wPc[w] = "select" /\ wPc'[w] = "process") =>
            \A i \in Jobs :
                (submitErr[i] = ErrNone /\ i < wJob'[w]) => ~InQueue(i)]_vars

C14_Witness ==
    \E w \in Workers :
        /\ wJob[w] # NoJob
        /\ Len(jobQueue) = 2
        /\ \A k \in 1..Len(jobQueue) : jobQueue[k] > wJob[w]

\* handlers that have left handleRequest
Returned == {j \in Jobs : hPc[j] \in {"rejected", "received", "timeout", "panic"}}

\* handlers whose request failed: Submit rejected it or the wait timed out
Failed == {j \in Jobs : hPc[j] \in {"rejected", "timeout"}}

C17_NoCancelWhileDraining ==
    (/\ timer = "running"
     /\ \A c \in Callers : sPc[c] = "idle"
     /\ \E j \in Jobs : hPc[j] = "await") => ~ctxDone

\* ---- PriorityQueue as container/heap drives it --------------------------
\* The heap array is a sequence; the 0-based index k of the Go code is
\* position k + 1 here.
\* mutant: Less orders lower priorities first
PLess_Min(h, i, j) == h[i + 1].prio < h[j + 1].prio

\* PriorityQueue.Less: higher priority first
PLess(h, i, j) == h[i + 1].prio > h[j + 1].prio

\* PriorityQueue.Swap (the Index fields are not read by the pool)
PSwap(h, i, j) == [h EXCEPT ![i + 1] = h[j + 1], ![j + 1] = h[i + 1]]

\* heap.up(h, j)
RECURSIVE HeapUp(_, _)
HeapUp(h, j) ==
    LET i == (j - 1) \div 2
    IN IF j = 0 \/ i = j \/ ~PLess(h, j, i)
       THEN h
       ELSE HeapUp(PSwap(h, i, j), i)

\* heap.down(h, i, n)
RECURSIVE HeapDown(_, _, _)
HeapDown(h, i, n) ==
    LET j1 == 2 * i + 1
        j2 == j1 + 1
        j  == IF j2 < n /\ PLess(h, j2, j1) THEN j2 ELSE j1
    IN IF j1 >= n
       THEN h
       ELSE IF ~PLess(h, j, i)
            THEN h
            ELSE HeapDown(PSwap(h, i, j), j, n)

\* heap.Push(&p.queue, x): PriorityQueue.Push appends, then up(Len - 1)
HeapPush(h, x) == HeapUp(Append(h, x), Len(h))

\* heap.Pop(&p.queue): Swap(0, n), down(0, n), PriorityQueue.Pop removes the
\* last element; HeapPopItem is the element returned, HeapPopRest the heap left
HeapPopItem(h) == h[1]

HeapPopRest(h) ==
    LET n == Len(h) - 1
    IN SubSeq(HeapDown(PSwap(h, 0, n), 0, n), 1, n)

\* ---- PriorityWorkerPool -------------------------------------------------
\* Submit(job, priority) on an open pool: heap.Push under the mutex
PSubmit(prio) ==
    /\ pSubmitted < NumPJobs
    /\ ~pClosed
    /\ pq' = HeapPush(pq, [id |-> pSubmitted + 1, prio |-> prio])
    /\ pSubmitted' = pSubmitted + 1
    /\ UNCHANGED <<pClosed, pwPc, pwJob, pWg, pcPc, popped>>
    /\ UNCHANGED <<poolVars, metricVars, rlVars, cbVars, baVars,
                   adVars, mVars>>

\* Submit(job, priority) on a closed pool: returns without pushing
PSubmitClosed(prio) ==
    /\ pSubmitted < NumPJobs
    /\ pClosed
    /\ pSubmitted' = pSubmitted + 1
    /\ UNCHANGED <<pq, pClosed, pwPc, pwJob, pWg, pcPc, popped>>
    /\ UNCHANGED <<poolVars, metricVars, rlVars, cbVars, baVars,
                   adVars, mVars>>

\* worker: queue not empty, heap.Pop under the mutex
PWorkerPop(w) ==
    /\ pwPc[w] = "wait"
    /\ Len(pq) > 0
    /\ pwJob' = [pwJob EXCEPT ![w] = HeapPopItem(pq)]
    /\ pq' = HeapPopRest(pq)
    /\ popped' = Append(popped, HeapPopItem(pq))
    /\ pwPc' = [pwPc EXCEPT ![w] = "process"]
    /\ UNCHANGED <<pClosed, pSubmitted, pWg, pcPc>>
    /\ UNCHANGED <<poolVars, metricVars, rlVars, cbVars, baVars,
                   adVars, mVars>>

\* worker: processJob returns, the result is sent, back to the loop
PWorkerProcess(w) ==
    /\ pwPc[w] = "process"
    /\ pwPc' = [pwPc EXCEPT ![w] = "wait"]
    /\ pwJob' = [pwJob EXCEPT ![w] = NoPJob]
    /\ UNCHANGED <<pq, pClosed, pSubmitted, pWg, pcPc, popped>>
    /\ UNCHANGED <<poolVars, metricVars, rlVars, cbVars, baVars,
                   adVars, mVars>>

\* a worker that returns as soon as the pool is closed, jobs queued or not
PWorkerExit_NoDrain(w) ==
    /\ pwPc[w] = "wait"
    /\ pClosed
    /\ pwPc' = [pwPc EXCEPT ![w] = "exited"]
    /\ pWg' = pWg - 1
    /\ UNCHANGED <<pq, pClosed, pSubmitted, pwJob, pcPc, popped>>
    /\ UNCHANGED <<poolVars, metricVars, rlVars, cbVars, baVars,
                   adVars, mVars>>

\* worker: closed and queue empty, return (deferred wg.Done)
PWorkerExit(w) ==
    /\ pwPc[w] = "wait"
    /\ pClosed
    /\ Len(pq) = 0
    /\ pwPc' = [pwPc EXCEPT ![w] = "exited"]
    /\ pWg' = pWg - 1
    /\ UNCHANGED <<pq, pClosed, pSubmitted, pwJob, pcPc, popped>>
    /\ UNCHANGED <<poolVars, metricVars, rlVars, cbVars, baVars,
                   adVars, mVars>>

\* Close: closed = true, Broadcast
PClose ==
    /\ pcPc = "idle"
    /\ pClosed' = TRUE
    /\ pcPc' = "wait"
    /\ UNCHANGED <<pq, pSubmitted, pwPc, pwJob, pWg, popped>>
    /\ UNCHANGED <<poolVars, metricVars, rlVars, cbVars, baVars,
                   adVars, mVars>>

\* Close: wg.Wait() returns
PCloseWait ==
    /\ pcPc = "wait"
    /\ pWg = 0
    /\ pcPc' = "returned"
    /\ UNCHANGED <<pq, pClosed, pSubmitted, pwPc, pwJob, pWg, popped>>
    /\ UNCHANGED <<poolVars, metricVars, rlVars, cbVars, baVars,
                   adVars, mVars>>

PNext ==
    \/ \E prio \in Priorities : PSubmit(prio)
    \/ \E prio \in Priorities : PSubmitClosed(prio)
    \/ \E w \in PWorkers : PWorkerPop(w)
    \/ \E w \in PWorkers : PWorkerProcess(w)
    \/ \E w \in PWorkers : PWorkerExit(w)
    \/ PClose
    \/ PCloseWait

SpecPriority == Init /\ [][PNext]_vars

\* a worker pops a job in this step
PPops(w) == pwPc[w] = "wait" /\ pwPc'[w] = "process"

\* C19: every job a worker pops has a priority at least as high as that of
\* every job still queued at that moment.
C19_PopsHighestPriority ==
    [][\A w \in PWorkers :
         PPops(w) =>
            /\ \E k \in 1..Len(pq) : pq[k] = pwJob'[w]
            /\ \A k \in 1..Len(pq) : pwJob'[w].prio >= pq[k].prio]_vars

C19_Witness ==
    \E w \in PWorkers :
        /\ pwPc[w] = "process"
        /\ Len(pq) = 2
        /\ \A k \in 1..Len(pq) : pq[k].prio < pwJob[w].prio
        /\ \E k \in 1..Len(pq) : pq[k].id < pwJob[w].id

\* C20: of two queued jobs with equal priority the one submitted first is
\* popped first.
C20_TiesByArrival ==
    [][\A w \in PWorkers :
         PPops(w) =>
            \A k \in 1..Len(pq) :
                pq[k].prio = pwJob'[w].prio => pq[k].id >= pwJob'[w].id]_vars

\* C21: with a single worker the jobs are processed in descending priority
\* order, whatever the order in which they were submitted.
C21_DescendingPriorityOrder ==
    (NumPWorkers = 1) =>
        \A a, b \in 1..Len(popped) :
            a < b => popped[a].prio >= popped[b].prio

\* ---- RateLimitedWorkerPool.Submit ---------------------------------------
\* calls of Submit are numbered in the order in which they reach the select
RlIsNextSubmit(j) ==
    /\ rlPc[j] = "idle"
    /\ \A i \in RlJobs : i < j => rlPc[i] # "idle"

\* select case p.jobQueue <- job, channel open with buffer room
RlSubmitSend(j) ==
    /\ ~rlPanicked
    /\ RlIsNextSubmit(j)
    /\ ~rlClosed
    /\ Len(rlQueue) < RlQueueSize
    /\ rlQueue' = Append(rlQueue, j)
    /\ rlPc' = [rlPc EXCEPT ![j] = "returned"]
    /\ rlErr' = [rlErr EXCEPT ![j] = ErrNone]
    /\ UNCHANGED <<rlSendq, rlClosed, rlCtxDone, rlWasParked, rlwPc, rlwJob, rlResult, rlWg, rlcPc, rlPanicked>>
    /\ UNCHANGED <<poolVars, metricVars, prioVars, cbVars, baVars,
                   adVars, mVars>>

\* select case <-p.ctx.Done(), ready when Submit is called
RlSubmitDone(j) ==
    /\ ~rlPanicked
    /\ RlIsNextSubmit(j)
    /\ rlCtxDone
    /\ rlPc' = [rlPc EXCEPT ![j] = "returned"]
    /\ rlErr' = [rlErr EXCEPT ![j] = ErrCanceled]
    /\ UNCHANGED <<rlQueue, rlSendq, rlClosed, rlCtxDone, rlWasParked, rlwPc, rlwJob, rlResult, rlWg, rlcPc, rlPanicked>>
    /\ UNCHANGED <<poolVars, metricVars, prioVars, cbVars, baVars,
                   adVars, mVars>>

\* select case p.jobQueue <- job, channel closed: send on closed channel
RlSubmitClosedPanic(j) ==
    /\ ~rlPanicked
    /\ RlIsNextSubmit(j)
    /\ rlClosed
    /\ rlPc' = [rlPc EXCEPT ![j] = "panic"]
    /\ rlPanicked' = TRUE
    /\ UNCHANGED <<rlQueue, rlSendq, rlClosed, rlCtxDone, rlErr, rlWasParked, rlwPc, rlwJob, rlResult, rlWg, rlcPc>>
    /\ UNCHANGED <<poolVars, metricVars, prioVars, cbVars, baVars,
                   adVars, mVars>>

\* no case ready (queue full and open, context live): the caller parks on
\* both channels
RlSubmitPark(j) ==
    /\ ~rlPanicked
    /\ RlIsNextSubmit(j)
    /\ ~rlClosed
    /\ ~rlCtxDone
    /\ Len(rlQueue) >= RlQueueSize
    /\ rlPc' = [rlPc EXCEPT ![j] = "parked"]
    /\ rlSendq' = Append(rlSendq, j)
    /\ rlWasParked' = [rlWasParked EXCEPT ![j] = TRUE]
    /\ UNCHANGED <<rlQueue, rlClosed, rlCtxDone, rlErr, rlwPc, rlwJob, rlResult, rlWg, rlcPc, rlPanicked>>
    /\ UNCHANGED <<poolVars, metricVars, prioVars, cbVars, baVars,
                   adVars, mVars>>

\* ---- RateLimitedWorkerPool.worker ---------------------------------------
\* select case <-p.ctx.Done(): return (deferred wg.Done)
RlWorkerCtxDone(w) ==
    /\ ~rlPanicked
    /\ rlwPc[w] = "select"
    /\ rlCtxDone
    /\ rlwPc' = [rlwPc EXCEPT ![w] = "exited"]
    /\ rlWg' = rlWg - 1
    /\ UNCHANGED <<rlQueue, rlSendq, rlClosed, rlCtxDone, rlPc, rlErr, rlWasParked, rlwJob, rlResult, rlcPc, rlPanicked>>
    /\ UNCHANGED <<poolVars, metricVars, prioVars, cbVars, baVars,
                   adVars, mVars>>

\* select case job := <-p.jobQueue with a buffered job; a parked sender, if
\* any, has its job moved into the freed slot and its Submit returns nil
RlWorkerDequeue(w) ==
    /\ ~rlPanicked
    /\ rlwPc[w] = "select"
    /\ Len(rlQueue) > 0
    /\ rlwJob' = [rlwJob EXCEPT ![w] = Head(rlQueue)]
    /\ rlwPc' = [rlwPc EXCEPT ![w] = "limit"]
    /\ IF Len(rlSendq) > 0
       THEN /\ rlQueue' = Append(Tail(rlQueue), Head(rlSendq))
            /\ rlSendq' = Tail(rlSendq)
            /\ rlPc' = [rlPc EXCEPT ![Head(rlSendq)] = "returned"]
            /\ rlErr' = [rlErr EXCEPT ![Head(rlSendq)] = ErrNone]
       ELSE /\ rlQueue' = Tail(rlQueue)
            /\ UNCHANGED <<rlSendq, rlPc, rlErr>>
    /\ UNCHANGED <<rlClosed, rlCtxDone, rlWasParked, rlResult, rlWg, rlcPc, rlPanicked>>
    /\ UNCHANGED <<poolVars, metricVars, prioVars, cbVars, baVars,
                   adVars, mVars>>

\* select case job := <-p.jobQueue on the closed, empty channel: the zero Job
RlWorkerDequeueClosed(w) ==
    /\ ~rlPanicked
    /\ rlwPc[w] = "select"
    /\ Len(rlQueue) = 0
    /\ rlClosed
    /\ rlwJob' = [rlwJob EXCEPT ![w] = NoJob]
    /\ rlwPc' = [rlwPc EXCEPT ![w] = "limit"]
    /\ UNCHANGED <<rlQueue, rlSendq, rlClosed, rlCtxDone, rlPc, rlErr, rlWasParked, rlResult, rlWg, rlcPc, rlPanicked>>
    /\ UNCHANGED <<poolVars, metricVars, prioVars, cbVars, baVars,
                   adVars, mVars>>

\* p.limiter.Wait(p.ctx) has to wait for a token (context live at the call)
RlLimiterWait(w) ==
    /\ ~rlPanicked
    /\ rlwPc[w] = "limit"
    /\ ~rlCtxDone
    /\ rlwPc' = [rlwPc EXCEPT ![w] = "limitWait"]
    /\ UNCHANGED <<rlQueue, rlSendq, rlClosed, rlCtxDone, rlPc, rlErr, rlWasParked, rlwJob, rlResult, rlWg, rlcPc, rlPanicked>>
    /\ UNCHANGED <<poolVars, metricVars, prioVars, cbVars, baVars,
                   adVars, mVars>>

\* p.limiter.Wait(p.ctx) returns nil: a token was available at once or the
\* wait for it ended
RlLimiterToken(w) ==
    /\ ~rlPanicked
    /\ \/ rlwPc[w] = "limit" /\ ~rlCtxDone
       \/ rlwPc[w] = "limitWait"
    /\ rlwPc' = [rlwPc EXCEPT ![w] = "process"]
    /\ UNCHANGED <<rlQueue, rlSendq, rlClosed, rlCtxDone, rlPc, rlErr, rlWasParked, rlwJob, rlResult, rlWg, rlcPc, rlPanicked>>
    /\ UNCHANGED <<poolVars, metricVars, prioVars, cbVars, baVars,
                   adVars, mVars>>

\* mutant: the error of p.limiter.Wait is ignored and the job is processed
RlLimiterCancelled_Executes(w) ==
    /\ ~rlPanicked
    /\ rlwPc[w] \in {"limit", "limitWait"}
    /\ rlCtxDone
    /\ rlwPc' = [rlwPc EXCEPT ![w] = "process"]
    /\ UNCHANGED <<rlQueue, rlSendq, rlClosed, rlCtxDone, rlPc, rlErr, rlWasParked, rlwJob, rlResult, rlWg, rlcPc, rlPanicked>>
    /\ UNCHANGED <<poolVars, metricVars, prioVars, cbVars, baVars,
                   adVars, mVars>>

\* p.limiter.Wait(p.ctx) returns the context's error: the error Result is
\* sent if the job has a ResultCh, continue
RlLimiterCancelled(w) ==
    /\ ~rlPanicked
    /\ rlwPc[w] \in {"limit", "limitWait"}
    /\ rlCtxDone
    /\ rlResult' = IF rlwJob[w] # NoJob
                   THEN [rlResult EXCEPT ![rlwJob[w]] = "ratelimited"]
                   ELSE rlResult
    /\ rlwPc' = [rlwPc EXCEPT ![w] = "select"]
    /\ rlwJob' = [rlwJob EXCEPT ![w] = NoJob]
    /\ UNCHANGED <<rlQueue, rlSendq, rlClosed, rlCtxDone, rlPc, rlErr, rlWasParked, rlWg, rlcPc, rlPanicked>>
    /\ UNCHANGED <<poolVars, metricVars, prioVars, cbVars, baVars,
                   adVars, mVars>>

\* processJob(job) returns, the Result is sent if the job has a ResultCh
RlWorkerProcess(w) ==
    /\ ~rlPanicked
    /\ rlwPc[w] = "process"
    /\ rlResult' = IF rlwJob[w] # NoJob
                   THEN [rlResult EXCEPT ![rlwJob[w]] = "processed"]
                   ELSE rlResult
    /\ rlwPc' = [rlwPc EXCEPT ![w] = "select"]
    /\ rlwJob' = [rlwJob EXCEPT ![w] = NoJob]
    /\ UNCHANGED <<rlQueue, rlSendq, rlClosed, rlCtxDone, rlPc, rlErr, rlWasParked, rlWg, rlcPc, rlPanicked>>
    /\ UNCHANGED <<poolVars, metricVars, prioVars, cbVars, baVars,
                   adVars, mVars>>

\* ---- RateLimitedWorkerPool.Close ----------------------------------------
\* mutant: cancel() does not reach the callers parked in Submit
RlCloseCancel_NoWake ==
    /\ ~rlPanicked
    /\ rlcPc = "idle"
    /\ rlCtxDone' = TRUE
    /\ rlcPc' = "close"
    /\ UNCHANGED <<rlQueue, rlSendq, rlPc, rlErr, rlClosed, rlWasParked, rlwPc, rlwJob, rlResult, rlWg, rlPanicked>>
    /\ UNCHANGED <<poolVars, metricVars, prioVars, cbVars, baVars,
                   adVars, mVars>>

\* p.cancel(): Done is closed; every caller parked in Submit is woken with
\* the Done case selected and returns ctx.Err()
RlCloseCancel ==
    /\ ~rlPanicked
    /\ rlcPc = "idle"
    /\ rlCtxDone' = TRUE
    /\ rlPc' = [j \in RlJobs |-> IF rlPc[j] = "parked" THEN "returned" ELSE rlPc[j]]
    /\ rlErr' = [j \in RlJobs |-> IF rlPc[j] = "parked" THEN ErrCanceled ELSE rlErr[j]]
    /\ rlSendq' = << >>
    /\ rlcPc' = "close"
    /\ UNCHANGED <<rlQueue, rlClosed, rlWasParked, rlwPc, rlwJob, rlResult, rlWg, rlPanicked>>
    /\ UNCHANGED <<poolVars, metricVars, prioVars, cbVars, baVars,
                   adVars, mVars>>

\* close(p.jobQueue): a sender still parked on the channel panics
RlCloseClose ==
    /\ ~rlPanicked
    /\ rlcPc = "close"
    /\ rlClosed' = TRUE
    /\ rlcPc' = "wait"
    /\ rlPc' = [j \in RlJobs |-> IF rlPc[j] = "parked" THEN "panic" ELSE rlPc[j]]
    /\ rlPanicked' = (Len(rlSendq) > 0)
    /\ rlSendq' = << >>
    /\ UNCHANGED <<rlQueue, rlCtxDone, rlErr, rlWasParked, rlwPc, rlwJob, rlResult, rlWg>>
    /\ UNCHANGED <<poolVars, metricVars, prioVars, cbVars, baVars,
                   adVars, mVars>>

\* p.wg.Wait() returns, Close returns
RlCloseWait ==
    /\ ~rlPanicked
    /\ rlcPc = "wait"
    /\ rlWg = 0
    /\ rlcPc' = "returned"
    /\ UNCHANGED <<rlQueue, rlSendq, rlClosed, rlCtxDone, rlPc, rlErr, rlWasParked, rlwPc, rlwJob, rlResult, rlWg, rlPanicked>>
    /\ UNCHANGED <<poolVars, metricVars, prioVars, cbVars, baVars,
                   adVars, mVars>>

RlNext ==
    \/ \E j \in RlJobs : RlSubmitSend(j)
    \/ \E j \in RlJobs : RlSubmitDone(j)
    \/ \E j \in RlJobs : RlSubmitClosedPanic(j)
    \/ \E j \in RlJobs : RlSubmitPark(j)
    \/ \E w \in RlWorkers : RlWorkerCtxDone(w)
    \/ \E w \in RlWorkers : RlWorkerDequeue(w)
    \/ \E w \in RlWorkers : RlWorkerDequeueClosed(w)
    \/ \E w \in RlWorkers : RlLimiterWait(w)
    \/ \E w \in RlWorkers : RlLimiterToken(w)
    \/ \E w \in RlWorkers : RlLimiterCancelled(w)
    \/ \E w \in RlWorkers : RlWorkerProcess(w)
    \/ RlCloseCancel
    \/ RlCloseClose
    \/ RlCloseWait

SpecRateLimited == Init /\ [][RlNext]_vars

InRlQueue(j) == \E k \in 1..Len(rlQueue) : rlQueue[k] = j

\* C18: a Submit that is blocked on a full queue is released when the pool
\* is closed: the cancel() of Close makes it return the context's error
\* without enqueuing its job, no Submit stays blocked once cancel() has run,
\* and a blocked Submit never panics.
C18_BlockedSubmitReleasedByClose ==
    /\ [][\A j \in RlJobs :
            (rlPc[j] = "parked" /\ ~rlCtxDone /\ rlCtxDone') =>
                /\ rlPc'[j] = "returned"
                /\ rlErr'[j] = ErrCanceled
                /\ rlQueue' = rlQueue]_vars
    /\ [](rlCtxDone => \A j \in RlJobs : rlPc[j] # "parked")
    /\ [](\A j \in RlJobs : rlWasParked[j] => rlPc[j] # "panic")

C18_Witness ==
    /\ rlcPc = "returned"
    /\ \E j \in RlJobs : rlWasParked[j] /\ rlPc[j] = "returned" /\ rlErr[j] = ErrCanceled
    /\ \E j \in RlJobs : rlWasParked[j] /\ rlPc[j] = "returned" /\ rlErr[j] = ErrNone

\* C22: a job whose wait for a limiter token is cancelled is not executed:
\* a Wait called on the cancelled context never leads to processJob, a worker
\* that leaves the wait without a token sends the rate-limit error on the
\* job's channel, and a job with that Result is held by no worker and is in
\* no queue, so it is never executed afterwards.
C22_CancelledWaitNotExecuted ==
    /\ [][\A w \in RlWorkers :
            (rlwPc[w] = "limit" /\ rlCtxDone) => rlwPc'[w] # "process"]_vars
    /\ [][\A w \in RlWorkers :
            (rlwPc[w] \in {"limit", "limitWait"} /\ rlwPc'[w] = "select"
                /\ rlwJob[w] # NoJob) =>
                    /\ rlResult[rlwJob[w]] = "none"
                    /\ rlResult'[rlwJob[w]] = "ratelimited"]_vars
    /\ [](\A j \in RlJobs :
            rlResult[j] = "ratelimited" =>
                /\ ~InRlQueue(j)
                /\ \A w \in RlWorkers : rlwJob[w] # j)
    /\ [][\A j \in RlJobs :
            rlResult[j] = "ratelimited" => rlResult'[j] = "ratelimited"]_vars

C22_Witness ==
    /\ \E j \in RlJobs : rlResult[j] = "ratelimited"
    /\ \E j \in RlJobs : rlResult[j] = "processed"
    /\ \E w \in RlWorkers : rlwPc[w] = "select"

\* ---- CircuitBreaker.Execute ---------------------------------------------
\* calls of Execute are numbered in the order in which they take the mutex
CbIsNextCall(c) ==
    /\ cbPc[c] = "idle"
    /\ \A i \in CbCalls : i < c => cbPc[i] # "idle"

\* first critical section, state is not Open: unlock and call fn
CbEnterPass(c) ==
    /\ CbIsNextCall(c)
    /\ cbState # StateOpen
    /\ cbPc' = [cbPc EXCEPT ![c] = "fn"]
    /\ UNCHANGED <<cbState, cbFailures, cbElapsed, cbRes, cbTrial, cbStreak>>
    /\ UNCHANGED <<poolVars, metricVars, prioVars, rlVars, baVars,
                   adVars, mVars>>

\* first critical section, Open and resetTimeout elapsed: HalfOpen,
\* failures = 0, unlock and call fn
CbEnterHalfOpen(c) ==
    /\ CbIsNextCall(c)
    /\ cbState = StateOpen
    /\ cbElapsed
    /\ cbState' = StateHalfOpen
    /\ cbFailures' = 0
    /\ cbTrial' = cbTrial \cup {c}
    /\ cbPc' = [cbPc EXCEPT ![c] = "fn"]
    /\ UNCHANGED <<cbElapsed, cbRes, cbStreak>>
    /\ UNCHANGED <<poolVars, metricVars, prioVars, rlVars, baVars,
                   adVars, mVars>>

\* first critical section, Open and resetTimeout not elapsed: return the
\* circuit-open error without calling fn
CbEnterRejected(c) ==
    /\ CbIsNextCall(c)
    /\ cbState = StateOpen
    /\ ~cbElapsed
    /\ cbPc' = [cbPc EXCEPT ![c] = "done"]
    /\ cbRes' = [cbRes EXCEPT ![c] = ErrCircuitOpen]
    /\ UNCHANGED <<cbState, cbFailures, cbElapsed, cbTrial, cbStreak>>
    /\ UNCHANGED <<poolVars, metricVars, prioVars, rlVars, baVars,
                   adVars, mVars>>

\* fn returned an error: failures++, lastFailTime = now, Open when the count
\* has reached maxFailures
CbFnFails(c) ==
    /\ cbPc[c] = "fn"
    /\ cbFailures' = cbFailures + 1
    /\ cbElapsed' = FALSE
    /\ cbState' = IF cbFailures + 1 >= MaxFailures THEN StateOpen ELSE cbState
    /\ cbStreak' = cbStreak + 1
    /\ cbPc' = [cbPc EXCEPT ![c] = "done"]
    /\ cbRes' = [cbRes EXCEPT ![c] = ErrFn]
    /\ UNCHANGED cbTrial
    /\ UNCHANGED <<poolVars, metricVars, prioVars, rlVars, baVars,
                   adVars, mVars>>

\* mutant: a success leaves a HalfOpen breaker HalfOpen
CbFnSucceeds_StaysHalfOpen(c) ==
    /\ cbPc[c] = "fn"
    /\ cbFailures' = 0
    /\ cbStreak' = 0
    /\ cbPc' = [cbPc EXCEPT ![c] = "done"]
    /\ cbRes' = [cbRes EXCEPT ![c] = ErrNone]
    /\ UNCHANGED <<cbState, cbElapsed, cbTrial>>
    /\ UNCHANGED <<poolVars, metricVars, prioVars, rlVars, baVars,
                   adVars, mVars>>

\* mutant: a success does not reset the failure count
CbFnSucceeds_KeepsCount(c) ==
    /\ cbPc[c] = "fn"
    /\ cbState' = IF cbState = StateHalfOpen THEN StateClosed ELSE cbState
    /\ cbStreak' = 0
    /\ cbPc' = [cbPc EXCEPT ![c] = "done"]
    /\ cbRes' = [cbRes EXCEPT ![c] = ErrNone]
    /\ UNCHANGED <<cbFailures, cbElapsed, cbTrial>>
    /\ UNCHANGED <<poolVars, metricVars, prioVars, rlVars, baVars,
                   adVars, mVars>>

\* fn returned nil: HalfOpen becomes Closed, failures = 0
CbFnSucceeds(c) ==
    /\ cbPc[c] = "fn"
    /\ cbState' = IF cbState = StateHalfOpen THEN StateClosed ELSE cbState
    /\ cbFailures' = 0
    /\ cbStreak' = 0
    /\ cbPc' = [cbPc EXCEPT ![c] = "done"]
    /\ cbRes' = [cbRes EXCEPT ![c] = ErrNone]
    /\ UNCHANGED <<cbElapsed, cbTrial>>
    /\ UNCHANGED <<poolVars, metricVars, prioVars, rlVars, baVars,
                   adVars, mVars>>

\* time passes: resetTimeout has elapsed since lastFailTime
CbTimeoutElapses ==
    /\ ~cbElapsed
    /\ cbElapsed' = TRUE
    /\ UNCHANGED <<cbState, cbFailures, cbPc, cbRes, cbTrial, cbStreak>>
    /\ UNCHANGED <<poolVars, metricVars, prioVars, rlVars, baVars,
                   adVars, mVars>>

CbNext ==
    \/ \E c \in CbCalls : CbEnterPass(c)
    \/ \E c \in CbCalls : CbEnterHalfOpen(c)
    \/ \E c \in CbCalls : CbEnterRejected(c)
    \/ \E c \in CbCalls : CbFnFails(c)
    \/ \E c \in CbCalls : CbFnSucceeds(c)
    \/ CbTimeoutElapses

SpecBreaker == Init /\ [][CbNext]_vars

\* a call enters Execute in this step
CbEnters(c) == cbPc[c] = "idle" /\ cbPc'[c] # "idle"

\* C23: after maxFailures consecutive failing calls, the next call made
\* before resetTimeout has elapsed is rejected with the circuit-open error
\* and fn is not invoked.
C23_RejectsAfterMaxFailures ==
    [][\A c \in CbCalls :
         (CbEnters(c) /\ cbStreak >= MaxFailures /\ ~cbElapsed) =>
            (cbPc'[c] = "done" /\ cbRes'[c] = ErrCircuitOpen)]_vars

\* a call completes with fn having failed / having succeeded in this step
CbFails(c) == cbPc[c] = "fn" /\ cbRes'[c] = ErrFn

CbSucceeds(c) == cbPc[c] = "fn" /\ cbRes'[c] = ErrNone

\* C24: while the trial call that moved the breaker to HalfOpen is still
\* running fn, every other call of Execute is rejected with the circuit-open
\* error.
C24_ExactlyOneTrial ==
    [][\A c \in CbCalls :
         (CbEnters(c) /\ cbState = StateHalfOpen
            /\ \E t \in cbTrial : cbPc[t] = "fn") =>
                (cbPc'[c] = "done" /\ cbRes'[c] = ErrCircuitOpen)]_vars

\* C25: a trial call that fails while the breaker is HalfOpen puts the
\* breaker back into Open.
C25_FailedTrialReopens ==
    [][\A c \in CbCalls :
         (c \in cbTrial /\ CbFails(c) /\ cbState = StateHalfOpen) =>
            cbState' = StateOpen]_vars

\* C26: a trial call that succeeds while the breaker is HalfOpen moves the
\* breaker to Closed with the failure count at zero.
C26_SuccessfulTrialCloses ==
    [][\A c \in CbCalls :
         (CbSucceeds(c) /\ cbState = StateHalfOpen) =>
            (cbState' = StateClosed /\ cbFailures' = 0)]_vars

C26_Witness ==
    /\ cbState = StateClosed
    /\ cbFailures = 0
    /\ \E c \in cbTrial :
        /\ cbRes[c] = ErrNone
        /\ \A d \in CbCalls : d # c => (cbPc[d] = "idle" \/ cbRes[d] = ErrFn)

\* C27: in Closed state only consecutive failures count: every successful
\* call sets the failure count to zero, the count never exceeds the number
\* of failed calls completed since the last success, and a Closed breaker
\* opens only when that number has reached maxFailures.
C27_ConsecutiveFailuresOnly ==
    /\ [][\A c \in CbCalls : CbSucceeds(c) => cbFailures' = 0]_vars
    /\ [](cbFailures <= cbStreak)
    /\ [][(cbState = StateClosed /\ cbState' = StateOpen) =>
            cbStreak' >= MaxFailures]_vars

C27_Witness ==
    /\ cbState = StateOpen
    /\ cbTrial = {}
    /\ cbStreak = MaxFailures
    /\ Cardinality({c \in CbCalls : cbRes[c] = ErrFn}) > MaxFailures
    /\ \E c \in CbCalls : cbRes[c] = ErrNone

\* ---- BatchingWorkerPool.Submit ------------------------------------------
\* calls of Submit are numbered in the order in which they reach the select
BaIsNextSubmit(j) ==
    /\ baPc[j] = "idle"
    /\ \A i \in BaJobs : i < j => baPc[i] # "idle"

\* select case p.jobQueue <- job, channel open with buffer room (the callers
\* are fewer than the capacity workers*batchSize*2, the send never waits)
BaSubmitSend(j) ==
    /\ ~baPanicked
    /\ BaIsNextSubmit(j)
    /\ ~baClosed
    /\ Len(baQueue) < BaJobQueueCap
    /\ baQueue' = Append(baQueue, j)
    /\ baPc' = [baPc EXCEPT ![j] = "returned"]
    /\ baErr' = [baErr EXCEPT ![j] = ErrNone]
    /\ UNCHANGED <<baClosed, baCtxDone, baBatch, batPc, baTimer,
                   baFullAtFire, baZero, baBatchQueue, baBatchClosed, bawPc,
                   bawBatch, bawResults, bawIdx, baResultCh, baWg, bacPc,
                   baPanicked, baDispatched>>
    /\ UNCHANGED <<poolVars, metricVars, prioVars, rlVars, cbVars,
                   adVars, mVars>>

\* select case <-p.ctx.Done(): return p.ctx.Err()
BaSubmitDone(j) ==
    /\ ~baPanicked
    /\ BaIsNextSubmit(j)
    /\ baCtxDone
    /\ baPc' = [baPc EXCEPT ![j] = "returned"]
    /\ baErr' = [baErr EXCEPT ![j] = ErrCanceled]
    /\ UNCHANGED <<baQueue, baClosed, baCtxDone, baBatch, batPc, baTimer,
                   baFullAtFire, baZero, baBatchQueue, baBatchClosed, bawPc,
                   bawBatch, bawResults, bawIdx, baResultCh, baWg, bacPc,
                   baPanicked, baDispatched>>
    /\ UNCHANGED <<poolVars, metricVars, prioVars, rlVars, cbVars,
                   adVars, mVars>>

\* select case p.jobQueue <- job, channel closed: send on closed channel
BaSubmitClosedPanic(j) ==
    /\ ~baPanicked
    /\ BaIsNextSubmit(j)
    /\ baClosed
    /\ baPc' = [baPc EXCEPT ![j] = "panic"]
    /\ baPanicked' = TRUE
    /\ UNCHANGED <<baQueue, baClosed, baCtxDone, baErr, baBatch, batPc,
                   baTimer, baFullAtFire, baZero, baBatchQueue,
                   baBatchClosed, bawPc, bawBatch, bawResults, bawIdx,
                   baResultCh, baWg, bacPc, baDispatched>>
    /\ UNCHANGED <<poolVars, metricVars, prioVars, rlVars, cbVars,
                   adVars, mVars>>

\* ---- BatchingWorkerPool.batcher -----------------------------------------
\* case job := <-p.jobQueue with a buffered job: append, and go to dispatch
\* when len(batch) >= batchSize
BatcherReceive ==
    /\ ~baPanicked
    /\ batPc = "select"
    /\ Len(baQueue) > 0
    /\ baQueue' = Tail(baQueue)
    /\ baBatch' = Append(baBatch, Head(baQueue))
    /\ batPc' = IF Len(baBatch) + 1 >= BatchSize THEN "sendSize" ELSE "select"
    /\ UNCHANGED <<baClosed, baCtxDone, baPc, baErr, baTimer, baFullAtFire,
                   baZero, baBatchQueue, baBatchClosed, bawPc, bawBatch,
                   bawResults, bawIdx, baResultCh, baWg, bacPc, baPanicked,
                   baDispatched>>
    /\ UNCHANGED <<poolVars, metricVars, prioVars, rlVars, cbVars,
                   adVars, mVars>>

\* case job := <-p.jobQueue on the closed, empty channel: the zero Job is
\* appended
BatcherReceiveClosed ==
    /\ ~baPanicked
    /\ batPc = "select"
    /\ Len(baQueue) = 0
    /\ baClosed
    /\ baZero < MaxBaZeroJobs
    /\ baZero' = baZero + 1
    /\ baBatch' = Append(baBatch, NoJob)
    /\ batPc' = IF Len(baBatch) + 1 >= BatchSize THEN "sendSize" ELSE "select"
    /\ UNCHANGED <<baQueue, baClosed, baCtxDone, baPc, baErr, baTimer,
                   baFullAtFire, baBatchQueue, baBatchClosed, bawPc,
                   bawBatch, bawResults, bawIdx, baResultCh, baWg, bacPc,
                   baPanicked, baDispatched>>
    /\ UNCHANGED <<poolVars, metricVars, prioVars, rlVars, cbVars,
                   adVars, mVars>>

\* a size dispatch that keeps the dispatched jobs in the batch
BatcherSendSize_KeepsBatch ==
    /\ ~baPanicked
    /\ batPc = "sendSize"
    /\ Len(baBatchQueue) < BaBatchQueueCap
    /\ baBatchQueue' = Append(baBatchQueue, baBatch)
    /\ baDispatched' = Append(baDispatched, baBatch)
    /\ baBatch' = baBatch
    /\ baTimer' \in (IF baTimer = "fired" THEN {"armed", "fired"} ELSE {"armed"})
    /\ baFullAtFire' = FALSE
    /\ batPc' = "select"
    /\ UNCHANGED <<baQueue, baClosed, baCtxDone, baPc, baErr, baZero,
                   baBatchClosed, bawPc, bawBatch, bawResults, bawIdx,
                   baResultCh, baWg, bacPc, baPanicked>>
    /\ UNCHANGED <<poolVars, metricVars, prioVars, rlVars, cbVars,
                   adVars, mVars>>

\* p.batchQueue <- BatchJob{Jobs: batch}; batch = nil; timer.Reset: a tick that
\* fired and was not read is dropped or stays in timer.C, by Go version
BatcherSendSize ==
    /\ ~baPanicked
    /\ batPc = "sendSize"
    /\ Len(baBatchQueue) < BaBatchQueueCap
    /\ baBatchQueue' = Append(baBatchQueue, baBatch)
    /\ baDispatched' = Append(baDispatched, baBatch)
    /\ baBatch' = << >>
    /\ baTimer' \in (IF baTimer = "fired" THEN {"armed", "fired"} ELSE {"armed"})
    /\ baFullAtFire' = FALSE
    /\ batPc' = "select"
    /\ UNCHANGED <<baQueue, baClosed, baCtxDone, baPc, baErr, baZero,
                   baBatchClosed, bawPc, bawBatch, bawResults, bawIdx,
                   baResultCh, baWg, bacPc, baPanicked>>
    /\ UNCHANGED <<poolVars, metricVars, prioVars, rlVars, cbVars,
                   adVars, mVars>>

\* case <-timer.C with len(batch) > 0: go to dispatch
BatcherTimerPartial ==
    /\ ~baPanicked
    /\ batPc = "select"
    /\ baTimer = "fired"
    /\ Len(baBatch) > 0
    /\ baTimer' = "read"
    /\ batPc' = "sendTimer"
    /\ UNCHANGED <<baQueue, baClosed, baCtxDone, baPc, baErr, baBatch,
                   baFullAtFire, baZero, baBatchQueue, baBatchClosed, bawPc,
                   bawBatch, bawResults, bawIdx, baResultCh, baWg, bacPc,
                   baPanicked, baDispatched>>
    /\ UNCHANGED <<poolVars, metricVars, prioVars, rlVars, cbVars,
                   adVars, mVars>>

\* case <-timer.C with an empty batch: timer.Reset only
BatcherTimerEmpty ==
    /\ ~baPanicked
    /\ batPc = "select"
    /\ baTimer = "fired"
    /\ Len(baBatch) = 0
    /\ baTimer' = "armed"
    /\ baFullAtFire' = FALSE
    /\ UNCHANGED <<baQueue, baClosed, baCtxDone, baPc, baErr, baBatch, batPc,
                   baZero, baBatchQueue, baBatchClosed, bawPc, bawBatch,
                   bawResults, bawIdx, baResultCh, baWg, bacPc, baPanicked,
                   baDispatched>>
    /\ UNCHANGED <<poolVars, metricVars, prioVars, rlVars, cbVars,
                   adVars, mVars>>

\* a timer-case dispatch that keeps the dispatched jobs in the batch
BatcherSendTimer_KeepsBatch ==
    /\ ~baPanicked
    /\ batPc = "sendTimer"
    /\ Len(baBatchQueue) < BaBatchQueueCap
    /\ baBatchQueue' = Append(baBatchQueue, baBatch)
    /\ baDispatched' = Append(baDispatched, baBatch)
    /\ baTimer' = "armed"
    /\ baFullAtFire' = FALSE
    /\ batPc' = "select"
    /\ UNCHANGED <<baQueue, baClosed, baCtxDone, baPc, baErr, baBatch, baZero,
                   baBatchClosed, bawPc, bawBatch, bawResults, bawIdx,
                   baResultCh, baWg, bacPc, baPanicked>>
    /\ UNCHANGED <<poolVars, metricVars, prioVars, rlVars, cbVars,
                   adVars, mVars>>

\* timer case: p.batchQueue <- BatchJob{Jobs: batch}; batch = nil; timer.Reset
BatcherSendTimer ==
    /\ ~baPanicked
    /\ batPc = "sendTimer"
    /\ Len(baBatchQueue) < BaBatchQueueCap
    /\ baBatchQueue' = Append(baBatchQueue, baBatch)
    /\ baDispatched' = Append(baDispatched, baBatch)
    /\ baBatch' = << >>
    /\ baTimer' = "armed"
    /\ baFullAtFire' = FALSE
    /\ batPc' = "select"
    /\ UNCHANGED <<baQueue, baClosed, baCtxDone, baPc, baErr, baZero,
                   baBatchClosed, bawPc, bawBatch, bawResults, bawIdx,
                   baResultCh, baWg, bacPc, baPanicked>>
    /\ UNCHANGED <<poolVars, metricVars, prioVars, rlVars, cbVars,
                   adVars, mVars>>

\* case <-p.ctx.Done(): the remaining batch, if any, is to be sent
BatcherDone ==
    /\ ~baPanicked
    /\ batPc = "select"
    /\ baCtxDone
    /\ batPc' = IF Len(baBatch) > 0 THEN "sendFinal" ELSE "closeBatch"
    /\ UNCHANGED <<baQueue, baClosed, baCtxDone, baPc, baErr, baBatch,
                   baTimer, baFullAtFire, baZero, baBatchQueue,
                   baBatchClosed, bawPc, bawBatch, bawResults, bawIdx,
                   baResultCh, baWg, bacPc, baPanicked, baDispatched>>
    /\ UNCHANGED <<poolVars, metricVars, prioVars, rlVars, cbVars,
                   adVars, mVars>>

\* ctx.Done case: p.batchQueue <- BatchJob{Jobs: batch}
BatcherSendFinal ==
    /\ ~baPanicked
    /\ batPc = "sendFinal"
    /\ Len(baBatchQueue) < BaBatchQueueCap
    /\ baBatchQueue' = Append(baBatchQueue, baBatch)
    /\ baDispatched' = Append(baDispatched, baBatch)
    /\ batPc' = "closeBatch"
    /\ UNCHANGED <<baQueue, baClosed, baCtxDone, baPc, baErr, baBatch,
                   baTimer, baFullAtFire, baZero, baBatchClosed, bawPc,
                   bawBatch, bawResults, bawIdx, baResultCh, baWg, bacPc,
                   baPanicked>>
    /\ UNCHANGED <<poolVars, metricVars, prioVars, rlVars, cbVars,
                   adVars, mVars>>

\* ctx.Done case: close(p.batchQueue); return
BatcherCloseBatch ==
    /\ ~baPanicked
    /\ batPc = "closeBatch"
    /\ baBatchClosed' = TRUE
    /\ batPc' = "exited"
    /\ UNCHANGED <<baQueue, baClosed, baCtxDone, baPc, baErr, baBatch,
                   baTimer, baFullAtFire, baZero, baBatchQueue, bawPc,
                   bawBatch, bawResults, bawIdx, baResultCh, baWg, bacPc,
                   baPanicked, baDispatched>>
    /\ UNCHANGED <<poolVars, metricVars, prioVars, rlVars, cbVars,
                   adVars, mVars>>

\* batchTimeout has passed since the timer was set: the tick is in timer.C
BaTimerFires ==
    /\ ~baPanicked
    /\ baTimer = "armed"
    /\ batPc # "exited"
    /\ baTimer' = "fired"
    /\ baFullAtFire' = (Len(baBatch) + Len(baQueue) >= BatchSize)
    /\ UNCHANGED <<baQueue, baClosed, baCtxDone, baPc, baErr, baBatch, batPc,
                   baZero, baBatchQueue, baBatchClosed, bawPc, bawBatch,
                   bawResults, bawIdx, baResultCh, baWg, bacPc, baPanicked,
                   baDispatched>>
    /\ UNCHANGED <<poolVars, metricVars, prioVars, rlVars, cbVars,
                   adVars, mVars>>

\* ---- BatchingWorkerPool.worker, processBatch -----------------------------
\* processJob(job): the result computed for one job, tagged with that job
BaProcessJob(j) == [of |-> j, data |-> "processed"]

\* processBatch: results[i] = p.processJob(batch.Jobs[i])
BaProcessBatch(jobs) == [i \in 1..Len(jobs) |-> BaProcessJob(jobs[i])]

\* for batch := range p.batchQueue: the next batch is received
BaWorkerRange(w) ==
    /\ ~baPanicked
    /\ bawPc[w] = "range"
    /\ Len(baBatchQueue) > 0
    /\ bawBatch' = [bawBatch EXCEPT ![w] = Head(baBatchQueue)]
    /\ baBatchQueue' = Tail(baBatchQueue)
    /\ bawPc' = [bawPc EXCEPT ![w] = "process"]
    /\ UNCHANGED <<baQueue, baClosed, baCtxDone, baPc, baErr, baBatch, batPc,
                   baTimer, baFullAtFire, baZero, baBatchClosed, bawResults,
                   bawIdx, baResultCh, baWg, bacPc, baPanicked, baDispatched>>
    /\ UNCHANGED <<poolVars, metricVars, prioVars, rlVars, cbVars,
                   adVars, mVars>>

\* for batch := range p.batchQueue: closed and drained, defer p.wg.Done()
BaWorkerExit(w) ==
    /\ ~baPanicked
    /\ bawPc[w] = "range"
    /\ Len(baBatchQueue) = 0
    /\ baBatchClosed
    /\ bawPc' = [bawPc EXCEPT ![w] = "exited"]
    /\ baWg' = baWg - 1
    /\ UNCHANGED <<baQueue, baClosed, baCtxDone, baPc, baErr, baBatch, batPc,
                   baTimer, baFullAtFire, baZero, baBatchQueue,
                   baBatchClosed, bawBatch, bawResults, bawIdx, baResultCh,
                   bacPc, baPanicked, baDispatched>>
    /\ UNCHANGED <<poolVars, metricVars, prioVars, rlVars, cbVars,
                   adVars, mVars>>

\* results := p.processBatch(batch)
BaWorkerProcessBatch(w) ==
    /\ ~baPanicked
    /\ bawPc[w] = "process"
    /\ bawResults' = [bawResults EXCEPT ![w] = BaProcessBatch(bawBatch[w])]
    /\ bawIdx' = [bawIdx EXCEPT ![w] = 1]
    /\ bawPc' = [bawPc EXCEPT ![w] = "demux"]
    /\ UNCHANGED <<baQueue, baClosed, baCtxDone, baPc, baErr, baBatch, batPc,
                   baTimer, baFullAtFire, baZero, baBatchQueue,
                   baBatchClosed, bawBatch, baResultCh, baWg, bacPc,
                   baPanicked, baDispatched>>
    /\ UNCHANGED <<poolVars, metricVars, prioVars, rlVars, cbVars,
                   adVars, mVars>>

\* a demultiplexing step that delivers results[i] to the ResultCh of another
\* job of the batch
BaWorkerSendResult_Misrouted(w) ==
    /\ ~baPanicked
    /\ bawPc[w] = "demux"
    /\ LET other == bawBatch[w][Len(bawBatch[w]) + 1 - bawIdx[w]]
       IN  IF other # NoJob
             THEN baResultCh' = [baResultCh EXCEPT ![other] =
                                    Append(@, bawResults[w][bawIdx[w]])]
             ELSE UNCHANGED baResultCh
    /\ IF bawIdx[w] >= Len(bawResults[w])
         THEN /\ bawPc' = [bawPc EXCEPT ![w] = "range"]
              /\ bawIdx' = [bawIdx EXCEPT ![w] = 0]
              /\ bawBatch' = [bawBatch EXCEPT ![w] = << >>]
              /\ bawResults' = [bawResults EXCEPT ![w] = << >>]
         ELSE /\ bawIdx' = [bawIdx EXCEPT ![w] = bawIdx[w] + 1]
              /\ UNCHANGED <<bawPc, bawBatch, bawResults>>
    /\ UNCHANGED <<baQueue, baClosed, baCtxDone, baPc, baErr, baBatch, batPc,
                   baTimer, baFullAtFire, baZero, baBatchQueue,
                   baBatchClosed, baWg, bacPc, baPanicked, baDispatched>>
    /\ UNCHANGED <<poolVars, metricVars, prioVars, rlVars, cbVars,
                   adVars, mVars>>

\* for i, result := range results: batch.Jobs[i].ResultCh <- result when the
\* channel is non-nil (the zero Job has none); after the last one, next batch
BaWorkerSendResult(w) ==
    /\ ~baPanicked
    /\ bawPc[w] = "demux"
    /\ LET job == bawBatch[w][bawIdx[w]]
       IN  IF job # NoJob
             THEN baResultCh' = [baResultCh EXCEPT ![job] =
                                    Append(@, bawResults[w][bawIdx[w]])]
             ELSE UNCHANGED baResultCh
    /\ IF bawIdx[w] >= Len(bawResults[w])
         THEN /\ bawPc' = [bawPc EXCEPT ![w] = "range"]
              /\ bawIdx' = [bawIdx EXCEPT ![w] = 0]
              /\ bawBatch' = [bawBatch EXCEPT ![w] = << >>]
              /\ bawResults' = [bawResults EXCEPT ![w] = << >>]
         ELSE /\ bawIdx' = [bawIdx EXCEPT ![w] = bawIdx[w] + 1]
              /\ UNCHANGED <<bawPc, bawBatch, bawResults>>
    /\ UNCHANGED <<baQueue, baClosed, baCtxDone, baPc, baErr, baBatch, batPc,
                   baTimer, baFullAtFire, baZero, baBatchQueue,
                   baBatchClosed, baWg, bacPc, baPanicked, baDispatched>>
    /\ UNCHANGED <<poolVars, metricVars, prioVars, rlVars, cbVars,
                   adVars, mVars>>

\* ---- BatchingWorkerPool.Close -------------------------------------------
\* p.cancel()
BaCloseCancel ==
    /\ ~baPanicked
    /\ bacPc = "idle"
    /\ baCtxDone' = TRUE
    /\ bacPc' = "close"
    /\ UNCHANGED <<baQueue, baClosed, baPc, baErr, baBatch, batPc, baTimer,
                   baFullAtFire, baZero, baBatchQueue, baBatchClosed, bawPc,
                   bawBatch, bawResults, bawIdx, baResultCh, baWg,
                   baPanicked, baDispatched>>
    /\ UNCHANGED <<poolVars, metricVars, prioVars, rlVars, cbVars,
                   adVars, mVars>>

\* close(p.jobQueue)
BaCloseClose ==
    /\ ~baPanicked
    /\ bacPc = "close"
    /\ baClosed' = TRUE
    /\ bacPc' = "wait"
    /\ UNCHANGED <<baQueue, baCtxDone, baPc, baErr, baBatch, batPc, baTimer,
                   baFullAtFire, baZero, baBatchQueue, baBatchClosed, bawPc,
                   bawBatch, bawResults, bawIdx, baResultCh, baWg,
                   baPanicked, baDispatched>>
    /\ UNCHANGED <<poolVars, metricVars, prioVars, rlVars, cbVars,
                   adVars, mVars>>

\* p.wg.Wait() returns once every worker has called Done
BaCloseWait ==
    /\ ~baPanicked
    /\ bacPc = "wait"
    /\ baWg = 0
    /\ bacPc' = "returned"
    /\ UNCHANGED <<baQueue, baClosed, baCtxDone, baPc, baErr, baBatch, batPc,
                   baTimer, baFullAtFire, baZero, baBatchQueue,
                   baBatchClosed, bawPc, bawBatch, bawResults, bawIdx,
                   baResultCh, baWg, baPanicked, baDispatched>>
    /\ UNCHANGED <<poolVars, metricVars, prioVars, rlVars, cbVars,
                   adVars, mVars>>

BaNext ==
    \/ \E j \in BaJobs : BaSubmitSend(j)
    \/ \E j \in BaJobs : BaSubmitDone(j)
    \/ \E j \in BaJobs : BaSubmitClosedPanic(j)
    \/ BatcherReceive
    \/ BatcherReceiveClosed
    \/ BatcherSendSize
    \/ BatcherTimerPartial
    \/ BatcherTimerEmpty
    \/ BatcherSendTimer
    \/ BatcherDone
    \/ BatcherSendFinal
    \/ BatcherCloseBatch
    \/ BaTimerFires
    \/ \E w \in BaWorkers : BaWorkerRange(w)
    \/ \E w \in BaWorkers : BaWorkerExit(w)
    \/ \E w \in BaWorkers : BaWorkerProcessBatch(w)
    \/ \E w \in BaWorkers : BaWorkerSendResult(w)
    \/ BaCloseCancel
    \/ BaCloseClose
    \/ BaCloseWait

SpecBatching == Init /\ [][BaNext]_vars

\* ---- Batching: size and timer dispatch ----------------------------------

\* the batcher hands a batch to the workers in this step
BaDispatches == baDispatched' # baDispatched

\* the batch handed over by the latest dispatch
BaLastDispatched == baDispatched[Len(baDispatched)]

\* C28: when batchSize jobs were accepted by Submit (waiting in the batch or in
\* the job queue) before the batch timer fired, the batcher dispatches them in
\* one batch of exactly batchSize jobs: while the pool is open, no dispatch
\* that follows such a tick carries fewer jobs.
C28_FullBatchOneDispatch ==
    [][(BaDispatches /\ baFullAtFire /\ ~baCtxDone) =>
           Len(BaLastDispatched') = BatchSize]_vars

\* the batcher takes the tick out of timer.C (case <-timer.C of its select)
BaTakesTick == batPc = "select" /\ baTimer = "fired" /\ baTimer' # "fired"

\* C29: when the batcher takes the timer tick with fewer than batchSize jobs
\* accumulated, it dispatches one batch holding exactly the accumulated jobs
\* and starts a new empty batch; with nothing accumulated the tick dispatches
\* nothing and the batch stays empty.
C29_TimerDispatchesPartialBatch ==
    /\ [][(BaTakesTick /\ Len(baBatch) > 0) =>
              /\ Len(baBatch) < BatchSize
              /\ batPc' = "sendTimer"
              /\ baBatch' = baBatch]_vars
    /\ [][batPc = "sendTimer" =>
              \/ /\ batPc' = "sendTimer"
                 /\ UNCHANGED <<baBatch, baDispatched>>
              \/ /\ batPc' = "select"
                 /\ baDispatched' = Append(baDispatched, baBatch)
                 /\ baBatchQueue' = Append(baBatchQueue, baBatch)
                 /\ baBatch' = << >>]_vars
    /\ [][(BaTakesTick /\ Len(baBatch) = 0) =>
              /\ batPc' = "select"
              /\ baBatch' = << >>
              /\ UNCHANGED <<baDispatched, baBatchQueue>>]_vars

\* a partial batch was dispatched by the timer case of an open pool and a new
\* empty batch was started
C29_Witness ==
    /\ ~baCtxDone
    /\ Len(baDispatched) > 0
    /\ Len(BaLastDispatched) < BatchSize
    /\ batPc = "select"
    /\ baBatch = << >>

\* ---- Batching: demultiplexing of results --------------------------------

\* worker w sends the last result of its batch in this step
BaFinishesBatch(w) == bawPc[w] = "demux" /\ bawPc'[w] = "range"

\* C30: a job's result channel only ever carries the Result computed for that
\* job, at most one of them, and when a worker has gone through a batch every
\* job of the batch that has a result channel holds exactly that one Result.
C30_ResultsDemultiplexedToOwnJob ==
    /\ [](\A j \in BaJobs :
              /\ Len(baResultCh[j]) <= 1
              /\ \A k \in 1..Len(baResultCh[j]) :
                     baResultCh[j][k] = BaProcessJob(j))
    /\ [][\A w \in BaWorkers : BaFinishesBatch(w) =>
              \A i \in 1..Len(bawBatch[w]) :
                  bawBatch[w][i] # NoJob =>
                      baResultCh'[bawBatch[w][i]] =
                          <<BaProcessJob(bawBatch[w][i])>>]_vars

\* a batch of several jobs was dispatched and each of its jobs has its result
C30_Witness ==
    \E b \in 1..Len(baDispatched) :
        /\ Len(baDispatched[b]) >= 2
        /\ \A i \in 1..Len(baDispatched[b]) :
               /\ baDispatched[b][i] # NoJob
               /\ Len(baResultCh[baDispatched[b][i]]) = 1

\* ---- AdaptiveWorkerPool: addWorker, removeWorker -------------------------

\* a goroutine slot that can host a new worker loop
AdIsFree(l) ==
    /\ adLoopPc[l] \in {"none", "exited"}
    /\ \A e \in adWorkers : e.loop # l

\* addWorker(id): workers[id] = w (an entry with the same id is overwritten),
\* wg.Add(1), go workerLoop, currentWorkers + 1
AdAddWorker(id) ==
    \E l \in AdLoops :
        /\ AdIsFree(l)
        /\ \A k \in AdLoops : AdIsFree(k) => l <= k
        /\ adWorkers' = {e \in adWorkers : e.id # id} \cup {[id |-> id, loop |-> l]}
        /\ adLoopPc' = [adLoopPc EXCEPT ![l] = "select"]
        /\ adLoopCancelled' = [adLoopCancelled EXCEPT ![l] = FALSE]
        /\ adWg' = adWg + 1
        /\ adCurrent' = adCurrent + 1

\* a removeWorker that cancels every worker of the map and deletes one entry
AdRemoveWorker_CancelsAll ==
    IF adWorkers = {}
      THEN UNCHANGED <<adWorkers, adLoopCancelled, adCurrent>>
      ELSE \E e \in adWorkers :
               /\ adLoopCancelled' = [l \in AdLoops |->
                      adLoopCancelled[l] \/ \E f \in adWorkers : f.loop = l]
               /\ adWorkers' = adWorkers \ {e}
               /\ adCurrent' = adCurrent - 1

\* removeWorker: the first entry the map iteration yields is cancelled and
\* deleted, currentWorkers - 1; nothing happens on an empty map
AdRemoveWorker ==
    IF adWorkers = {}
      THEN UNCHANGED <<adWorkers, adLoopCancelled, adCurrent>>
      ELSE \E e \in adWorkers :
               /\ adLoopCancelled' = [adLoopCancelled EXCEPT ![e.loop] = TRUE]
               /\ adWorkers' = adWorkers \ {e}
               /\ adCurrent' = adCurrent - 1

\* the context of worker loop l is done: its own cancel or the pool's
AdLoopCtxIsDone(l) == adLoopCancelled[l] \/ adCtxDone

\* worker loops that have been started and have not returned
AdLiveLoops == {l \in AdLoops : adLoopPc[l] = "select"}

\* NewAdaptiveWorkerPool has returned
AdConstructed == adCtor = MinWorkers

\* NewAdaptiveWorkerPool: for i := 0; i < minWorkers; i++ { pool.addWorker(i) }
AdConstructAdd ==
    /\ ~adPanicked
    /\ adCtor < MinWorkers
    /\ AdAddWorker(adCtor)
    /\ adCtor' = adCtor + 1
    /\ UNCHANGED <<adQueue, adClosed, adCtxDone, adAccepted, adErr,
                   adProcessed, adZero, adMonPc, adcPc, adPanicked>>
    /\ UNCHANGED <<poolVars, metricVars, prioVars, rlVars, cbVars, baVars,
                   mVars>>

\* ---- AdaptiveWorkerPool.scaleMonitor ------------------------------------

\* the conditions of one tick, on queueDepth and currentWorkers as read at
\* its start (they exclude each other: 10*c >= 2*c)
AdScaleUp == adQueue > adCurrent * ScaleUpFactor /\ adCurrent < MaxWorkers
AdScaleDown == adQueue < adCurrent * ScaleDownFactor /\ adCurrent > MinWorkers

\* case <-ticker.C, scale-up branch: addWorker(currentWorkers)
AdTickScaleUp ==
    /\ ~adPanicked
    /\ AdConstructed
    /\ adMonPc = "select"
    /\ AdScaleUp /\ ~AdScaleDown
    /\ AdAddWorker(adCurrent)
    /\ UNCHANGED <<adCtor, adQueue, adClosed, adCtxDone, adAccepted, adErr,
                   adProcessed, adZero, adMonPc, adcPc, adPanicked>>
    /\ UNCHANGED <<poolVars, metricVars, prioVars, rlVars, cbVars, baVars,
                   mVars>>

\* case <-ticker.C, scale-down branch: removeWorker()
AdTickScaleDown ==
    /\ ~adPanicked
    /\ AdConstructed
    /\ adMonPc = "select"
    /\ AdScaleDown /\ ~AdScaleUp
    /\ AdRemoveWorker
    /\ UNCHANGED <<adCtor, adQueue, adClosed, adCtxDone, adAccepted, adErr,
                   adLoopPc, adProcessed, adZero, adWg, adMonPc, adcPc,
                   adPanicked>>
    /\ UNCHANGED <<poolVars, metricVars, prioVars, rlVars, cbVars, baVars,
                   mVars>>

\* case <-p.ctx.Done(): return
AdMonitorDone ==
    /\ ~adPanicked
    /\ AdConstructed
    /\ adMonPc = "select"
    /\ adCtxDone
    /\ adMonPc' = "exited"
    /\ UNCHANGED <<adCtor, adQueue, adClosed, adCtxDone, adAccepted, adErr,
                   adCurrent, adWorkers, adLoopPc, adLoopCancelled,
                   adProcessed, adZero, adWg, adcPc, adPanicked>>
    /\ UNCHANGED <<poolVars, metricVars, prioVars, rlVars, cbVars, baVars,
                   mVars>>

\* ---- AdaptiveWorkerPool.workerLoop --------------------------------------

\* case <-ctx.Done(): return, defer p.wg.Done()
AdLoopCtxDone(l) ==
    /\ ~adPanicked
    /\ adLoopPc[l] = "select"
    /\ AdLoopCtxIsDone(l)
    /\ adLoopPc' = [adLoopPc EXCEPT ![l] = "exited"]
    /\ adWg' = adWg - 1
    /\ UNCHANGED <<adCtor, adQueue, adClosed, adCtxDone, adAccepted, adErr,
                   adCurrent, adWorkers, adLoopCancelled, adProcessed,
                   adZero, adMonPc, adcPc, adPanicked>>
    /\ UNCHANGED <<poolVars, metricVars, prioVars, rlVars, cbVars, baVars,
                   mVars>>

\* case job := <-p.jobQueue with a buffered job: processJob(job),
\* processedJobs + 1, the result is sent on the job's ResultCh
AdLoopDequeue(l) ==
    /\ ~adPanicked
    /\ adLoopPc[l] = "select"
    /\ adQueue > 0
    /\ adQueue' = adQueue - 1
    /\ adProcessed' = adProcessed + 1
    /\ UNCHANGED <<adCtor, adClosed, adCtxDone, adAccepted, adErr, adCurrent,
                   adWorkers, adLoopPc, adLoopCancelled, adZero, adWg,
                   adMonPc, adcPc, adPanicked>>
    /\ UNCHANGED <<poolVars, metricVars, prioVars, rlVars, cbVars, baVars,
                   mVars>>

\* case job := <-p.jobQueue on the closed, empty channel: the zero Job is
\* processed, processedJobs + 1, its ResultCh is nil
AdLoopDequeueClosed(l) ==
    /\ ~adPanicked
    /\ adLoopPc[l] = "select"
    /\ adQueue = 0
    /\ adClosed
    /\ adZero < MaxAdZeroJobs
    /\ adZero' = adZero + 1
    /\ adProcessed' = adProcessed + 1
    /\ UNCHANGED <<adCtor, adQueue, adClosed, adCtxDone, adAccepted, adErr,
                   adCurrent, adWorkers, adLoopPc, adLoopCancelled, adWg,
                   adMonPc, adcPc, adPanicked>>
    /\ UNCHANGED <<poolVars, metricVars, prioVars, rlVars, cbVars, baVars,
                   mVars>>

\* ---- AdaptiveWorkerPool.Submit, Close -----------------------------------

\* select case p.jobQueue <- job: return nil
AdSubmitSend ==
    /\ ~adPanicked
    /\ AdConstructed
    /\ adAccepted < NumAdJobs
    /\ ~adClosed
    /\ adQueue < AdQueueSize
    /\ adQueue' = adQueue + 1
    /\ adAccepted' = adAccepted + 1
    /\ adErr' = ErrNone
    /\ UNCHANGED <<adCtor, adClosed, adCtxDone, adCurrent, adWorkers,
                   adLoopPc, adLoopCancelled, adProcessed, adZero, adWg,
                   adMonPc, adcPc, adPanicked>>
    /\ UNCHANGED <<poolVars, metricVars, prioVars, rlVars, cbVars, baVars,
                   mVars>>

\* select case <-p.ctx.Done(): return p.ctx.Err()
AdSubmitDone ==
    /\ ~adPanicked
    /\ AdConstructed
    /\ adCtxDone
    /\ adErr' = ErrCanceled
    /\ UNCHANGED <<adCtor, adQueue, adClosed, adCtxDone, adAccepted,
                   adCurrent, adWorkers, adLoopPc, adLoopCancelled,
                   adProcessed, adZero, adWg, adMonPc, adcPc, adPanicked>>
    /\ UNCHANGED <<poolVars, metricVars, prioVars, rlVars, cbVars, baVars,
                   mVars>>

\* select case p.jobQueue <- job on the closed channel: panic
AdSubmitClosedPanic ==
    /\ ~adPanicked
    /\ AdConstructed
    /\ adClosed
    /\ adPanicked' = TRUE
    /\ UNCHANGED <<adCtor, adQueue, adClosed, adCtxDone, adAccepted, adErr,
                   adCurrent, adWorkers, adLoopPc, adLoopCancelled,
                   adProcessed, adZero, adWg, adMonPc, adcPc>>
    /\ UNCHANGED <<poolVars, metricVars, prioVars, rlVars, cbVars, baVars,
                   mVars>>

\* p.cancel()
AdCloseCancel ==
    /\ ~adPanicked
    /\ AdConstructed
    /\ adcPc = "idle"
    /\ adCtxDone' = TRUE
    /\ adcPc' = "close"
    /\ UNCHANGED <<adCtor, adQueue, adClosed, adAccepted, adErr, adCurrent,
                   adWorkers, adLoopPc, adLoopCancelled, adProcessed, adZero,
                   adWg, adMonPc, adPanicked>>
    /\ UNCHANGED <<poolVars, metricVars, prioVars, rlVars, cbVars, baVars,
                   mVars>>

\* close(p.jobQueue)
AdCloseClose ==
    /\ ~adPanicked
    /\ adcPc = "close"
    /\ adClosed' = TRUE
    /\ adcPc' = "wait"
    /\ UNCHANGED <<adCtor, adQueue, adCtxDone, adAccepted, adErr, adCurrent,
                   adWorkers, adLoopPc, adLoopCancelled, adProcessed, adZero,
                   adWg, adMonPc, adPanicked>>
    /\ UNCHANGED <<poolVars, metricVars, prioVars, rlVars, cbVars, baVars,
                   mVars>>

\* p.wg.Wait() returns when the counter is zero
AdCloseWait ==
    /\ ~adPanicked
    /\ adcPc = "wait"
    /\ adWg = 0
    /\ adcPc' = "returned"
    /\ UNCHANGED <<adCtor, adQueue, adClosed, adCtxDone, adAccepted, adErr,
                   adCurrent, adWorkers, adLoopPc, adLoopCancelled,
                   adProcessed, adZero, adWg, adMonPc, adPanicked>>
    /\ UNCHANGED <<poolVars, metricVars, prioVars, rlVars, cbVars, baVars,
                   mVars>>

AdNext ==
    \/ AdConstructAdd
    \/ AdTickScaleUp
    \/ AdTickScaleDown
    \/ AdMonitorDone
    \/ \E l \in AdLoops : AdLoopCtxDone(l)
    \/ \E l \in AdLoops : AdLoopDequeue(l)
    \/ \E l \in AdLoops : AdLoopDequeueClosed(l)
    \/ AdSubmitSend
    \/ AdSubmitDone
    \/ AdSubmitClosedPanic
    \/ AdCloseCancel
    \/ AdCloseClose
    \/ AdCloseWait

SpecAdaptive == Init /\ [][AdNext]_vars

\* ---- Adaptive pool: claims ----------------------------------------------

\* worker loops that are running and have not been retired
AdActiveLoops == {l \in AdLiveLoops : ~AdLoopCtxIsDone(l)}

\* C31: once the constructor has returned, and as long as the pool is not
\* closed, the number of live workers lies within the configured bounds,
\* minWorkers <= live workers <= maxWorkers, whatever the scaling monitor did.
C31_WorkersWithinBounds ==
    (AdConstructed /\ ~adCtxDone) =>
        /\ MinWorkers <= Cardinality(AdActiveLoops)
        /\ Cardinality(AdActiveLoops) <= MaxWorkers

\* removeWorker retires a worker in this step
AdRetires == adCurrent' = adCurrent - 1

\* C32: retiring a worker cancels the sub-context of exactly one worker; the
\* contexts of all other workers and the pool context are left as they were,
\* the other worker loops are not disturbed, and every worker whose context is
\* live can still take a job from a non-empty queue.
C32_RetireCancelsOnlyOneWorker ==
    /\ [][AdRetires =>
              /\ adCtxDone' = adCtxDone
              /\ \E l \in AdLoops :
                     /\ ~adLoopCancelled[l] /\ adLoopCancelled'[l]
                     /\ \A k \in AdLoops \ {l} :
                            /\ adLoopCancelled'[k] = adLoopCancelled[k]
                            /\ adLoopPc'[k] = adLoopPc[k]]_vars
    /\ [](\A l \in AdActiveLoops :
              (adQueue > 0 /\ ~adPanicked) => ENABLED AdLoopDequeue(l))

\* a worker was retired while another worker is live and jobs are queued
C32_Witness ==
    /\ ~adCtxDone
    /\ adQueue > 0
    /\ \E l, k \in AdLoops :
           /\ adLoopCancelled[l]
           /\ k \in AdActiveLoops

\* C37: once the constructor has returned, and as long as the pool is not
\* closed, the currentWorkers counter equals the number of entries of the
\* workers map and the number of worker loops that run and are not retired.
C37_CounterMatchesWorkers ==
    (AdConstructed /\ ~adCtxDone) =>
        /\ adCurrent = Cardinality(adWorkers)
        /\ adCurrent = Cardinality(AdActiveLoops)

\* C38: a worker only handles jobs that were accepted by Submit: no zero Job
\* is received from the closed job queue, and the processedJobs counter never
\* exceeds the number of accepted jobs.
C38_OnlyAcceptedJobsHandled ==
    /\ adZero = 0
    /\ adProcessed <= adAccepted

\* ---- Batching: shape and order of the dispatched batches -----------------

RECURSIVE BaFlatten(_)
\* the jobs of a sequence of batches, in order
BaFlatten(batches) ==
    IF batches = << >> THEN << >>
    ELSE Head(batches) \o BaFlatten(Tail(batches))

\* the jobs of a sequence that came from a call of Submit (not the zero Job)
BaSubmittedOf(seq) == SelectSeq(seq, LAMBDA j : j # NoJob)

\* the batch under construction (handed over already once the batcher is
\* past its last send)
BaPendingBatch == IF batPc \in {"closeBatch", "exited"} THEN << >> ELSE baBatch

\* jobs the batcher has taken from the job queue, as dispatched or pending
BaTakenInOrder == BaSubmittedOf(BaFlatten(baDispatched) \o BaPendingBatch)

\* jobs accepted by Submit
BaAccepted == {j \in BaJobs : baPc[j] = "returned" /\ baErr[j] = ErrNone}

\* C39: every dispatched batch is non-empty and holds at most batchSize jobs;
\* every job taken from the job queue is in exactly one batch (dispatched, or
\* still being built while the batcher runs), and the jobs are in arrival
\* order within and across batches.
C39_BatchesWellFormedAndOrdered ==
    /\ \A b \in 1..Len(baDispatched) :
           Len(baDispatched[b]) >= 1 /\ Len(baDispatched[b]) <= BatchSize
    /\ \A a, b \in 1..Len(BaTakenInOrder) :
           a < b => BaTakenInOrder[a] < BaTakenInOrder[b]
    /\ {BaTakenInOrder[a] : a \in 1..Len(BaTakenInOrder)} =
           BaAccepted \ {baQueue[q] : q \in 1..Len(baQueue)}

\* a full batch and a further batch were dispatched and no job is left behind
C39_Witness ==
    /\ Len(baDispatched) >= 2
    /\ \E b \in 1..Len(baDispatched) : Len(baDispatched[b]) = BatchSize
    /\ Len(BaTakenInOrder) = NumBaJobs
    /\ batPc = "exited"

\* ---- Priority pool: Close drains the queue ------------------------------

\* C40: when Close returns the queue is empty and no worker holds a job, so
\* every job pushed by Submit has been popped and processed; a worker returns
\* only from a closed pool with an empty queue; a Submit on a closed pool
\* leaves the queue as it is.
C40_CloseDrainsQueue ==
    /\ [](pcPc = "returned" =>
              /\ Len(pq) = 0
              /\ \A w \in PWorkers : pwPc[w] = "exited" /\ pwJob[w] = NoPJob)
    /\ [][\A w \in PWorkers :
              (pwPc[w] # "exited" /\ pwPc'[w] = "exited") =>
                  pClosed /\ Len(pq) = 0]_vars
    /\ [][(pClosed /\ pSubmitted' # pSubmitted) => pq' = pq]_vars

\* Close has returned after jobs were processed, one of them popped after
\* Close began, and a later Submit was turned away
C40_Witness ==
    /\ pcPc = "returned"
    /\ Len(popped) >= 2
    /\ pSubmitted > Len(popped)

\* ---- Main pool: termination of Shutdown ---------------------------------

C34_ProcessedResultWritten ==
    [][\A w \in Workers :
          (wPc[w] = "send" /\ resultCh[wJob[w]] < ResultChCap /\ wPc'[w] # "send") =>
              written'[wJob[w]] = written[wJob[w]] + 1]_vars

\* ---- Main pool: workers alive while Running ------------------------------

\* C35: while the pool is Running (context not cancelled, queue not closed)
\* all `workers` worker loops are alive and the WaitGroup counts them all:
\* no worker has returned, whatever jobs it has processed.
C35_AllWorkersAliveWhileRunning ==
    (~ctxDone /\ ~closed) =>
        /\ \A w \in Workers : wPc[w] # "exited"
        /\ wg = NumWorkers

\* a Running pool whose worker has delivered a result and is back in its loop
C35_Witness ==
    /\ ~ctxDone /\ ~closed
    /\ \E j \in Jobs : written[j] = 1
    /\ \A w \in Workers : wPc[w] = "select"

\* ---- Metrics: the counter updates of a request, one by one ---------------

\* IncrementActive, first operation: atomic.AddInt64(&m.activeConnections, 1)
MIncActive(r) ==
    /\ mPc[r] = "idle"
    /\ activeConnections' = activeConnections + 1
    /\ mPc' = [mPc EXCEPT ![r] = "incTotal"]
    /\ UNCHANGED <<totalRequests, completedRequests, errorCount>>
    /\ UNCHANGED <<poolVars, prioVars, rlVars, cbVars, baVars, adVars>>

\* a handler entry that leaves totalRequests as it is
MIncTotal_Skip(r) ==
    /\ mPc[r] = "incTotal"
    /\ mPc' = [mPc EXCEPT ![r] = "serving"]
    /\ UNCHANGED <<activeConnections, totalRequests, completedRequests,
                   errorCount>>
    /\ UNCHANGED <<poolVars, prioVars, rlVars, cbVars, baVars, adVars>>

\* IncrementActive, second operation: atomic.AddInt64(&m.totalRequests, 1)
MIncTotal(r) ==
    /\ mPc[r] = "incTotal"
    /\ totalRequests' = totalRequests + 1
    /\ mPc' = [mPc EXCEPT ![r] = "serving"]
    /\ UNCHANGED <<activeConnections, completedRequests, errorCount>>
    /\ UNCHANGED <<poolVars, prioVars, rlVars, cbVars, baVars, adVars>>

\* the handler body ends without an error
MServeOk(r) ==
    /\ mPc[r] = "serving"
    /\ mPc' = [mPc EXCEPT ![r] = "leaving"]
    /\ UNCHANGED <<activeConnections, totalRequests, completedRequests,
                   errorCount>>
    /\ UNCHANGED <<poolVars, prioVars, rlVars, cbVars, baVars, adVars>>

\* the handler body ends on an error path: IncrementErrors
MServeError(r) ==
    /\ mPc[r] = "serving"
    /\ errorCount' = errorCount + 1
    /\ mPc' = [mPc EXCEPT ![r] = "leaving"]
    /\ UNCHANGED <<activeConnections, totalRequests, completedRequests>>
    /\ UNCHANGED <<poolVars, prioVars, rlVars, cbVars, baVars, adVars>>

\* DecrementActive, first operation: atomic.AddInt64(&m.activeConnections, -1)
MDecActive(r) ==
    /\ mPc[r] = "leaving"
    /\ activeConnections' = activeConnections - 1
    /\ mPc' = [mPc EXCEPT ![r] = "incCompleted"]
    /\ UNCHANGED <<totalRequests, completedRequests, errorCount>>
    /\ UNCHANGED <<poolVars, prioVars, rlVars, cbVars, baVars, adVars>>

\* DecrementActive, second operation: atomic.AddInt64(&m.completedRequests, 1)
MIncCompleted(r) ==
    /\ mPc[r] = "incCompleted"
    /\ completedRequests' = completedRequests + 1
    /\ mPc' = [mPc EXCEPT ![r] = "done"]
    /\ UNCHANGED <<activeConnections, totalRequests, errorCount>>
    /\ UNCHANGED <<poolVars, prioVars, rlVars, cbVars, baVars, adVars>>

MNext ==
    \/ \E r \in MRequests : MIncActive(r)
    \/ \E r \in MRequests : MIncTotal(r)
    \/ \E r \in MRequests : MServeOk(r)
    \/ \E r \in MRequests : MServeError(r)
    \/ \E r \in MRequests : MDecActive(r)
    \/ \E r \in MRequests : MIncCompleted(r)

SpecMetrics == Init /\ [][MNext]_vars

\* no request handler is between its first and its last counter update
MQuiescent == \A r \in MRequests : mPc[r] \in {"idle", "done"}

\* C36: under every interleaving of the handlers' atomic counter updates,
\* active_connections is never negative and completed_requests never exceeds
\* total_requests; when no handler is in flight active_connections = 0 and
\* total_requests = completed_requests.
C36_CountersConsistent ==
    /\ activeConnections >= 0
    /\ completedRequests <= totalRequests
    /\ MQuiescent => (activeConnections = 0 /\ totalRequests = completedRequests)

\* one request is complete while another is between the two operations of
\* IncrementActive and a third between the two of DecrementActive
C36_Witness ==
    \E a, b, c \in MRequests :
        /\ mPc[a] = "done"
        /\ mPc[b] = "incTotal"
        /\ mPc[c] = "incCompleted"

====
